---------------------------- MODULE Spec2Model ----------------------------
(***************************************************************************)
(* A model of the 2D aerodynamic estimation engine (physics/engine.js:     *)
(* calculateDrag and the helpers it calls).                                *)
(*                                                                         *)
(* JavaScript numbers are modelled as fixed-point integers: the integer n  *)
(* stands for the real n / Scale.  The values Infinity, -Infinity, NaN and *)
(* undefined are four reserved integers outside the finite range, and the  *)
(* X-operators below follow the IEEE-754 rules for them (NaN poisons       *)
(* arithmetic and makes every comparison false, x/0 is an infinity, 0/0 is *)
(* NaN).  Reynolds numbers are too large for Scale and are kept in         *)
(* hundredths (ReScale).  Angles handed to the engine are in degrees at    *)
(* Scale like every other number.                                          *)
(***************************************************************************)
EXTENDS Integers, Sequences, FiniteSets, TLC

\* ------------------------------------------------------------------------
\* Bounds of the model
\* ------------------------------------------------------------------------
MaxPolys == 11
MaxTurns == 1
Precision == 10
MaxTime == 1
MaxDocs == 1
MaxHistory == 11

\* ------------------------------------------------------------------------
\* Numbers
\* ------------------------------------------------------------------------
Scale == 10^4
ReScale == 10^2

PosInf == (2^30 - 1) * 2 + 1
NegInf == -PosInf
NaN == PosInf - 1
Undefined == PosInf - 2

IsNaN(x) == x = NaN \/ x = Undefined
IsInf(x) == x = PosInf \/ x = NegInf
IsFinite(x) == ~IsNaN(x) /\ ~IsInf(x)

AbsI(x) == IF x < 0 THEN -x ELSE x
SgnI(x) == IF x < 0 THEN -1 ELSE IF x > 0 THEN 1 ELSE 0

\* Real(n) is the fixed-point value of the integer n.
Real(n) == n * Scale

\* a*b/Scale on magnitudes, rounded to nearest, split so that no partial
\* product overflows.
MulAbs(a, b) ==
    LET ah == a \div Scale
        al == a % Scale
        bh == b \div Scale
        bl == b % Scale
    IN  ah * bh * Scale + ah * bl + al * bh + (al * bl + Scale \div 2) \div Scale

MulF(a, b) == SgnI(a) * SgnI(b) * MulAbs(AbsI(a), AbsI(b))

\* a/k for an integer k > 0, rounded to nearest, symmetric in the sign of a.
DivI(a, k) == SgnI(a) * ((AbsI(a) + k \div 2) \div k)

\* a*Scale/b on magnitudes by long division, four decimal digits; a divisor
\* too wide for the digit step is first shortened by one digit, with a.
DivDigits(a, b) ==
    LET q  == a \div b
        r0 == a % b
        d1 == (r0 * 10) \div b
        r1 == (r0 * 10) % b
        d2 == (r1 * 10) \div b
        r2 == (r1 * 10) % b
        d3 == (r2 * 10) \div b
        r3 == (r2 * 10) % b
        d4 == (r3 * 10) \div b
    IN  q * Scale + d1 * 1000 + d2 * 100 + d3 * 10 + d4

DivAbs(a, b) ==
    IF b >= 2 * 10^8 THEN DivDigits(a \div 10, b \div 10) ELSE DivDigits(a, b)

DivF(a, b) == SgnI(a) * SgnI(b) * DivAbs(AbsI(a), AbsI(b))

XNeg(a) == IF IsNaN(a) THEN NaN ELSE -a

XAdd(a, b) ==
    IF IsNaN(a) \/ IsNaN(b) THEN NaN
    ELSE IF IsInf(a) /\ IsInf(b) THEN (IF a = b THEN a ELSE NaN)
    ELSE IF IsInf(a) THEN a
    ELSE IF IsInf(b) THEN b
    ELSE a + b

XSub(a, b) == XAdd(a, XNeg(b))

XMul(a, b) ==
    IF IsNaN(a) \/ IsNaN(b) THEN NaN
    ELSE IF IsInf(a) \/ IsInf(b)
         THEN (IF a = 0 \/ b = 0 THEN NaN
               ELSE IF SgnI(a) * SgnI(b) > 0 THEN PosInf ELSE NegInf)
    ELSE MulF(a, b)

XDiv(a, b) ==
    IF IsNaN(a) \/ IsNaN(b) THEN NaN
    ELSE IF IsInf(a) /\ IsInf(b) THEN NaN
    ELSE IF IsInf(a) THEN (IF SgnI(a) * SgnI(b) >= 0 THEN PosInf ELSE NegInf)
    ELSE IF IsInf(b) THEN 0
    ELSE IF b = 0 THEN (IF a = 0 THEN NaN ELSE IF a > 0 THEN PosInf ELSE NegInf)
    ELSE DivF(a, b)

XLt(a, b) == ~IsNaN(a) /\ ~IsNaN(b) /\ a < b
XGt(a, b) == ~IsNaN(a) /\ ~IsNaN(b) /\ a > b
XLe(a, b) == ~IsNaN(a) /\ ~IsNaN(b) /\ a <= b
XGe(a, b) == ~IsNaN(a) /\ ~IsNaN(b) /\ a >= b

XMin(a, b) == IF IsNaN(a) \/ IsNaN(b) THEN NaN ELSE IF a < b THEN a ELSE b
XMax(a, b) == IF IsNaN(a) \/ IsNaN(b) THEN NaN ELSE IF a > b THEN a ELSE b
XAbs(a) == IF IsNaN(a) THEN NaN ELSE AbsI(a)

\* Integer square root by bisection: the largest r with r*r <= n.
RECURSIVE ISqrtIter(_, _, _)
ISqrtIter(n, lo, hi) ==
    IF lo >= hi THEN lo
    ELSE LET mid == (lo + hi + 1) \div 2
         IN  IF mid * mid <= n THEN ISqrtIter(n, mid, hi)
             ELSE ISqrtIter(n, lo, mid - 1)

ISqrt(n) == ISqrtIter(n, 0, 46340)

\* Math.sqrt: sqrt(n/Scale)*Scale = sqrt(n*Scale); the argument is scaled
\* as far as 32 bits allow and the rest is made up after the root.
XSqrt(a) ==
    IF IsNaN(a) THEN NaN
    ELSE IF a = PosInf THEN PosInf
    ELSE IF a < 0 THEN NaN
    ELSE IF a < 200000 THEN ISqrt(a * 10000)
    ELSE IF a < 20000000 THEN ISqrt(a * 100) * 10
    ELSE ISqrt(a) * 100

\* x.toFixed(d) read back as a number: x rounded half away from zero to a
\* multiple of unit (unit = Scale / 10^d).  NaN and the infinities print as
\* "NaN" and "Infinity" and parse back to themselves.
Round(x, unit) ==
    IF ~IsFinite(x) THEN (IF IsNaN(x) THEN NaN ELSE x)
    ELSE SgnI(x) * (((AbsI(x) + unit \div 2) \div unit) * unit)

\* ------------------------------------------------------------------------
\* Math.* as fixed-point series
\* ------------------------------------------------------------------------
\* Math.PI
PI == 31416

\* x brought into [-PI, PI] by whole turns.
ReduceTurn(x) ==
    LET m == AbsI(x) % (2 * PI)
    IN  SgnI(x) * (IF m > PI THEN m - 2 * PI ELSE m)

\* sum of t, t*f/(k(k+1)), ... : the shared tail of the sine and cosine
\* series, f = -x*x, k the next denominator pair.
RECURSIVE TrigSeries(_, _, _, _)
TrigSeries(f, k, term, sum) ==
    IF term = 0 \/ k > 14 THEN sum
    ELSE LET next == DivI(MulF(term, f), k * (k + 1))
         IN  TrigSeries(f, k + 2, next, sum + next)

SinSmall(x) == TrigSeries(-MulF(x, x), 2, x, x)
CosSmall(x) == TrigSeries(-MulF(x, x), 1, Scale, Scale)

\* Math.sin and Math.cos of an angle in radians.
MathSin(x) ==
    IF ~IsFinite(x) THEN NaN
    ELSE LET r == ReduceTurn(x)
         IN  IF r > PI \div 2 THEN SinSmall(PI - r)
             ELSE IF r < -(PI \div 2) THEN SinSmall(-PI - r)
             ELSE SinSmall(r)

MathCos(x) ==
    IF ~IsFinite(x) THEN NaN
    ELSE LET r == AbsI(ReduceTurn(x))
         IN  IF r > PI \div 2 THEN -CosSmall(PI - r) ELSE CosSmall(r)

\* Math.exp by its power series; e^-x = 1/e^x.
RECURSIVE ExpSeries(_, _, _, _)
ExpSeries(x, k, term, sum) ==
    IF term = 0 \/ k > 30 THEN sum
    ELSE LET next == DivI(MulF(term, x), k)
         IN  ExpSeries(x, k + 1, next, sum + next)

MathExp(x) ==
    IF IsNaN(x) THEN NaN
    ELSE IF x = PosInf THEN PosInf
    ELSE IF x = NegInf THEN 0
    ELSE IF x >= 0 THEN ExpSeries(x, 1, Scale, Scale)
    ELSE DivF(Scale, ExpSeries(-x, 1, Scale, Scale))

\* Math.log10 of the positive integer ratio n/d (d a power of ten): the
\* decade count, then the fraction bit by bit by repeated squaring of the
\* mantissa m in [1, 10).
RECURSIVE Decades(_)
Decades(n) == IF n < 10 THEN 0 ELSE 1 + Decades(n \div 10)

RECURSIVE LogBits(_, _, _)
LogBits(m, bit, acc) ==
    IF bit = 0 THEN acc
    ELSE LET sq == MulF(m, m)
         IN  IF sq >= 10 * Scale THEN LogBits(DivI(sq, 10), bit \div 2, acc + bit)
             ELSE LogBits(sq, bit \div 2, acc)

Log10Ratio(n, d) ==
    LET k == Decades(n)
        m == DivF(n, 10^k)
    IN  (k - Decades(d)) * Scale + LogBits(m, Scale \div 2, 0)

\* Math.atan2(y, x) in radians, by CORDIC rotation of (|x|, y) onto the
\* x axis; AtanTable[i] = atan(2^-(i-1)).
AtanTable == <<7854, 4636, 2450, 1244, 624, 312, 156, 78, 39, 20, 10, 5, 2, 1>>

RECURSIVE Cordic(_, _, _, _)
Cordic(x, y, i, acc) ==
    IF i > Len(AtanTable) \/ y = 0 THEN acc
    ELSE LET p == 2^(i - 1)
         IN  IF y > 0
             THEN Cordic(x + y \div p, y - x \div p, i + 1, acc + AtanTable[i])
             ELSE Cordic(x + (-y) \div p, y + x \div p, i + 1, acc - AtanTable[i])

MathAtan2(y, x) ==
    IF y = 0 THEN (IF x < 0 THEN PI ELSE 0)
    ELSE LET a == Cordic(AbsI(x), y, 1, 0)
         IN  IF x >= 0 THEN a
             ELSE IF y > 0 THEN PI - a ELSE -PI - a

\* ------------------------------------------------------------------------
\* The engine: constants and geometry helpers
\* ------------------------------------------------------------------------
\* n thousandths as a number: Milli(1225) is 1.225.
Milli(n) == n * (Scale \div 1000)

\* 1.81e-5 Pa.s, in units of 1e-7
AIR_DYNAMIC_VISCOSITY == 181
ViscosityUnit == 10^7
PIXELS_PER_METER == 100

\* .limit(10) of the query of GET /tests.
HistoryLimit == 10

\* obj.name, undefined when the object has no such property.
Field(obj, name) == IF name \in DOMAIN obj THEN obj[name] ELSE Undefined
\* obj.name used as a condition: undefined is falsy.
Truthy(obj, name) == name \in DOMAIN obj /\ obj[name]

\* A point is <<x, y>>; a polygon is a sequence of points.
SumCoord(points, c) ==
    LET RECURSIVE Go(_)
        Go(i) == IF i = 0 THEN 0 ELSE Go(i - 1) + points[i][c]
    IN  Go(Len(points))

getCentroid(points) ==
    LET n == Len(points)
    IN  IF n = 0 THEN [x |-> 0, y |-> 0]
        ELSE [x |-> DivI(SumCoord(points, 1), n), y |-> DivI(SumCoord(points, 2), n)]

\* angleDegrees * Math.PI / 180
ToRadians(angleDegrees) == XDiv(XMul(angleDegrees, PI), Real(180))

rotatePoints(points, angleDegrees) ==
    LET angleRad == ToRadians(angleDegrees)
        cosKey   == MathCos(angleRad)
        sinKey   == MathSin(angleRad)
        centroid == getCentroid(points)
    IN  [i \in 1..Len(points) |->
            LET dx == points[i][1] - centroid.x
                dy == points[i][2] - centroid.y
            IN  << centroid.x + (MulF(dx, cosKey) - MulF(dy, sinKey)),
                   centroid.y + (MulF(dx, sinKey) + MulF(dy, cosKey)) >>]

\* The caller's array after rotatePoints(points, angleDegrees) has returned:
\* points.map builds a new array and new pairs, the argument is only read.
rotatePointsInPlace(points, angleDegrees) == rotatePoints(points, angleDegrees)
rotatePointsArgument(points, angleDegrees) == points

getBoundingBox(points) ==
    LET RECURSIVE Go(_)
        Go(b) ==
            IF b.i > Len(points) THEN b
            ELSE Go([i |-> b.i + 1,
                     minX |-> IF points[b.i][1] < b.minX THEN points[b.i][1] ELSE b.minX,
                     maxX |-> IF points[b.i][1] > b.maxX THEN points[b.i][1] ELSE b.maxX,
                     minY |-> IF points[b.i][2] < b.minY THEN points[b.i][2] ELSE b.minY,
                     maxY |-> IF points[b.i][2] > b.maxY THEN points[b.i][2] ELSE b.maxY])
        b == Go([i |-> 1, minX |-> PosInf, maxX |-> NegInf, minY |-> PosInf, maxY |-> NegInf])
    IN  [width |-> XSub(b.maxX, b.minX), height |-> XSub(b.maxY, b.minY),
         minX |-> b.minX, maxX |-> b.maxX, minY |-> b.minY, maxY |-> b.maxY]

calculatePolygonArea(points) ==
    LET n == Len(points)
        RECURSIVE Go(_)
        Go(i) ==
            IF i = 0 THEN 0
            ELSE LET j == (i % n) + 1
                 IN  Go(i - 1) + (MulF(points[i][1], points[j][2])
                                  - MulF(points[j][1], points[i][2]))
    IN  AbsI(Go(n)) \div 2

\* Re = rho*V*L/mu, in hundredths (ReScale).
calculateReynolds(velocity, characteristicLength, density, dynamicViscosity) ==
    LET p == XMul(XMul(density, velocity), characteristicLength)
        k == (ReScale * ViscosityUnit) \div Scale
    IN  IF ~IsFinite(p) THEN p
        ELSE SgnI(p) * ((AbsI(p) \div dynamicViscosity) * k
                        + ((AbsI(p) % dynamicViscosity) * k) \div dynamicViscosity)

classifyShapeSwapped(points, bounds, solidity) ==
    LET aspectRatio == XDiv(bounds.width, bounds.height)
        isCircular == XGt(solidity, Milli(700)) /\ XLt(solidity, Milli(820))
                      /\ XGt(aspectRatio, Milli(800)) /\ XLt(aspectRatio, Milli(1250))
        isRectangular == XGt(solidity, Milli(850)) /\ Len(points) = 4
        isStreamlined == XGt(aspectRatio, Milli(3000))
                         \/ (XLt(aspectRatio, Milli(330)) /\ XGt(aspectRatio, 0))
    IN  IF isCircular THEN "circular"
        ELSE IF isStreamlined THEN "streamlined"
        ELSE IF isRectangular THEN "rectangular"
        ELSE "bluff"

classifyShape(points, bounds, solidity) ==
    LET aspectRatio == XDiv(bounds.width, bounds.height)
        isCircular == XGt(solidity, Milli(700)) /\ XLt(solidity, Milli(820))
                      /\ XGt(aspectRatio, Milli(800)) /\ XLt(aspectRatio, Milli(1250))
        isRectangular == XGt(solidity, Milli(850)) /\ Len(points) = 4
        isStreamlined == XGt(aspectRatio, Milli(3000))
                         \/ (XLt(aspectRatio, Milli(330)) /\ XGt(aspectRatio, 0))
    IN  IF isCircular THEN "circular"
        ELSE IF isRectangular THEN "rectangular"
        ELSE IF isStreamlined THEN "streamlined"
        ELSE "bluff"

\* ------------------------------------------------------------------------
\* The geometric helpers in floating point
\* ------------------------------------------------------------------------
\* The helpers above add and subtract without error.  Here every operation
\* is rounded as a binary floating-point operation is: a number is a count
\* of units of 2^-Precision whose significand has Precision bits (53 in the
\* numbers of the program), and a result is the representable number
\* nearest to the exact one, ties to even.
FloatOne == 2^Precision

\* The exponent of the last place of a magnitude a counted in units.
RECURSIVE LastPlace(_, _)
LastPlace(a, e) == IF a < 2^(Precision + e) THEN e ELSE LastPlace(a, e + 1)

Ulp(a) == 2^LastPlace(AbsI(a), 0)

\* num / den, in units, rounded to the nearest representable number.
RoundToFloat(num, den) ==
    LET n == AbsI(num)
        d == AbsI(den) * Ulp(n \div AbsI(den))
        q == n \div d
        r == n % d
    IN  SgnI(num) * SgnI(den) * (d \div AbsI(den))
            * (IF 2 * r > d \/ (2 * r = d /\ q % 2 = 1) THEN q + 1 ELSE q)

\* The number a literal num/den denotes.
FloatOf(num, den) == RoundToFloat(num * FloatOne, den)

FAdd(a, b) == RoundToFloat(a + b, 1)
FSub(a, b) == RoundToFloat(a - b, 1)
FMul(a, b) == RoundToFloat(a * b, FloatOne)

\* Math.cos and Math.sin of an angle given in degrees (a number at Scale).
FloatCos(angleDegrees) == RoundToFloat(MathCos(ToRadians(angleDegrees)) * FloatOne, Scale)
FloatSin(angleDegrees) == RoundToFloat(MathSin(ToRadians(angleDegrees)) * FloatOne, Scale)

SumCoordFloat(points, c) ==
    LET RECURSIVE Go(_)
        Go(i) == IF i = 0 THEN 0 ELSE FAdd(Go(i - 1), points[i][c])
    IN  Go(Len(points))

getCentroidFloat(points) ==
    LET n == Len(points)
    IN  IF n = 0 THEN [x |-> 0, y |-> 0]
        ELSE [x |-> RoundToFloat(SumCoordFloat(points, 1), n),
              y |-> RoundToFloat(SumCoordFloat(points, 2), n)]

rotatePointsFloatSwapped(points, angleDegrees) ==
    LET cosKey   == FloatCos(angleDegrees)
        sinKey   == FloatSin(angleDegrees)
        centroid == getCentroidFloat(points)
    IN  [i \in 1..Len(points) |->
            LET dx == FSub(points[i][1], centroid.x)
                dy == FSub(points[i][2], centroid.y)
            IN  << FAdd(centroid.x, FSub(FMul(dx, sinKey), FMul(dy, cosKey))),
                   FAdd(centroid.y, FAdd(FMul(dx, cosKey), FMul(dy, sinKey))) >>]

rotatePointsFloat(points, angleDegrees) ==
    LET cosKey   == FloatCos(angleDegrees)
        sinKey   == FloatSin(angleDegrees)
        centroid == getCentroidFloat(points)
    IN  [i \in 1..Len(points) |->
            LET dx == FSub(points[i][1], centroid.x)
                dy == FSub(points[i][2], centroid.y)
            IN  << FAdd(centroid.x, FSub(FMul(dx, cosKey), FMul(dy, sinKey))),
                   FAdd(centroid.y, FAdd(FMul(dx, sinKey), FMul(dy, cosKey))) >>]

getBoundingBoxFloat(points) ==
    LET b == getBoundingBox(points)
    IN  [b EXCEPT !.width = IF Len(points) = 0 THEN NegInf ELSE FSub(b.maxX, b.minX),
                  !.height = IF Len(points) = 0 THEN NegInf ELSE FSub(b.maxY, b.minY)]

calculatePolygonAreaFloatSigned(points) ==
    LET n == Len(points)
        RECURSIVE Go(_)
        Go(i) ==
            IF i = 0 THEN 0
            ELSE FAdd(Go(i - 1), FSub(FMul(points[i][1], points[(i % n) + 1][2]),
                                      FMul(points[(i % n) + 1][1], points[i][2])))
    IN  RoundToFloat(Go(n), 2)

calculatePolygonAreaFloat(points) ==
    LET n == Len(points)
        RECURSIVE Go(_)
        Go(i) ==
            IF i = 0 THEN 0
            ELSE FAdd(Go(i - 1), FSub(FMul(points[i][1], points[(i % n) + 1][2]),
                                      FMul(points[(i % n) + 1][1], points[i][2])))
    IN  RoundToFloat(AbsI(Go(n)), 2)

\* ------------------------------------------------------------------------
\* Geometry analyzer
\* ------------------------------------------------------------------------
\* The index of the first point whose x is nearest to target (strict <).
NearestX(points, target) ==
    LET d(i) == XAbs(XSub(points[i][1], target))
    IN  CHOOSE i \in 1..Len(points) :
            /\ \A j \in 1..Len(points) : ~XLt(d(j), d(i))
            /\ \A j \in 1..(i - 1) : XGt(d(j), d(i))

\* The loop over the vertices that accumulates the signed distances from
\* the chord: maxLower is assigned dist itself, not its magnitude.
SideSums(points, pLE, nx, ny) ==
    CHOOSE sums \in
      { LET Dist(i) == MulF(points[i][1] - p[1], n[1]) + MulF(points[i][2] - p[2], n[2])
            RECURSIVE Go(_)
            Go(a) ==
                IF a.i > Len(points) THEN a
                ELSE LET Step(dist) ==
                             IF dist > 0
                             THEN [a EXCEPT !.i = @ + 1,
                                            !.sumY = @ + dist,
                                            !.upperArea = @ + dist,
                                            !.maxUpper = IF dist > @ THEN dist ELSE @]
                             ELSE [a EXCEPT !.i = @ + 1,
                                            !.sumY = @ + dist,
                                            !.lowerArea = @ + AbsI(dist),
                                            !.maxLower = IF AbsI(dist) > @ THEN dist ELSE @]
                     IN  Go(CHOOSE next \in {Step(dist) : dist \in {Dist(a.i)}} : TRUE)
        IN  Go([i |-> 1, sumY |-> 0, upperArea |-> 0, lowerArea |-> 0, maxUpper |-> 0,
                maxLower |-> 0]) : p \in {pLE}, n \in {<<nx, ny>>} } : TRUE

\* Math.min(a, b) / Math.max(a, b) when both are positive, else 0.
BalanceRatio(a, b) == IF a > 0 /\ b > 0 THEN XDiv(XMin(a, b), XMax(a, b)) ELSE 0

analyzeGeometry(points, boundsGiven) ==
    CHOOSE geometry \in {
    LET minX == bounds.minX
        maxX == bounds.maxX
        chordLength == XSub(maxX, minX)
        n == Len(points)
    IN  IF chordLength = 0
        THEN [maxCamber |-> 0, thickness |-> 0, isSymmetric |-> TRUE,
              teAngle |-> Real(180), leRadius |-> 0]
        ELSE IF n = 0
        THEN [throws |-> "TypeError"]
        ELSE
        CHOOSE analyzed \in {
        LET pLE == points[iLE]
            pTE == points[iTE]
            dy  == pTE[2] - pLE[2]
            dx  == pTE[1] - pLE[1]
            len == XSqrt(MulF(dx, dx) + MulF(dy, dy))
            ux  == XDiv(dx, len)
            uy  == XDiv(dy, len)
            nx  == -uy
            ny  == ux
        IN  CHOOSE measured \in {
        LET avgDeviation == DivI(a.sumY, n)
            normalizedCamber == XDiv(-avgDeviation, chordLength)
            thicknessRatio == XDiv(bounds.height, chordLength)
            areaRatio == BalanceRatio(a.upperArea, a.lowerArea)
            maxThickRatio == BalanceRatio(a.maxUpper, a.maxLower)
            isSymmetric == XGt(areaRatio, Milli(850)) /\ XGt(maxThickRatio, Milli(850))
                           /\ XLt(XAbs(normalizedCamber), Milli(20))
            prev == points[((iTE - 2 + n) % n) + 1]
            next == points[(iTE % n) + 1]
            angle1 == MathAtan2(prev[2] - pTE[2], prev[1] - pTE[1])
            angle2 == MathAtan2(next[2] - pTE[2], next[1] - pTE[1])
            teAngleRaw == XAbs(XDiv(XMul(angle1 - angle2, Real(180)), PI))
            teAngleDeg == IF teAngleRaw > Real(180) THEN Real(360) - teAngleRaw ELSE teAngleRaw
            prevLE == points[((iLE - 2 + n) % n) + 1]
            nextLE == points[(iLE % n) + 1]
            ex == prevLE[1] - nextLE[1]
            ey == prevLE[2] - nextLE[2]
            leWidth == XSqrt(MulF(ex, ex) + MulF(ey, ey))
            leRadius == XDiv(leWidth, 2 * chordLength)
        IN  [camber |-> normalizedCamber, thickness |-> thicknessRatio,
             isSymmetric |-> isSymmetric, teAngle |-> teAngleDeg, leRadius |-> leRadius]
            : a \in {SideSums(points, pLE, nx, ny)} } : TRUE
            : iLE \in {NearestX(points, minX)}, iTE \in {NearestX(points, maxX)} } : TRUE
        : bounds \in {boundsGiven} } : TRUE

\* ------------------------------------------------------------------------
\* Coefficient models
\* ------------------------------------------------------------------------
\* A Reynolds number n as kept by the model (hundredths).
Re(n) == n * ReScale

\* A number over a Reynolds number, and a Reynolds number over an integer,
\* as numbers at Scale.
OverRe(n, reynolds) ==
    IF IsNaN(reynolds) THEN NaN
    ELSE IF IsInf(reynolds) THEN 0
    ELSE IF reynolds = 0 THEN PosInf
    ELSE SgnI(reynolds) * ((n * ReScale * Scale) \div AbsI(reynolds))

ReOver(reynolds, d) ==
    IF ~IsFinite(reynolds) THEN reynolds
    ELSE DivI(reynolds, (d * ReScale) \div Scale)

\* geometry || {} : the geometry argument, or an object with no properties.
NoGeometry == <<>>
HasGeometry(geometry) == DOMAIN geometry # {}

\* Math.max(aspectRatio, 1 / aspectRatio)
Fineness(aspectRatio) == XMax(aspectRatio, XDiv(Scale, aspectRatio))

\* (reynolds - 3.5e5) / 50000: where a Reynolds number stands in the drag
\* crisis, 0 at its middle.
TransitionRelOffCentre(reynolds) == ReOver(reynolds - Re(300000), 50000)
TransitionRel(reynolds) == ReOver(reynolds - Re(350000), 50000)

\* cd before the final clamp.
DragModel(shapeType, reynolds, aspectRatio, solidity, angleDegrees, geometry) ==
    LET isSymmetric == Truthy(geometry, "isSymmetric")
        teAngle     == Field(geometry, "teAngle")
        angleRad    == XAbs(ToRadians(angleDegrees))
    IN  CASE shapeType = "circular" ->
               LET base ==
                     IF XLt(reynolds, Re(1))
                     THEN XMax(OverRe(24, reynolds), Real(2))
                     ELSE IF XLt(reynolds, Re(200000)) THEN Milli(1170)
                     ELSE IF XLt(reynolds, Re(500000))
                     THEN LET transitionRel == TransitionRel(reynolds)
                              sig == XDiv(Scale, Scale + MathExp(transitionRel))
                          IN  Milli(300) + MulF(Milli(1200) - Milli(300), sig)
                     ELSE XAdd(Milli(350), XMul(ReOver(reynolds, 10^7), Milli(100)))
               IN  IF XGt(angleRad, Milli(100))
                   THEN XMul(base, Scale + MulF(Milli(50), MathSin(angleRad)))
                   ELSE base
          [] shapeType = "rectangular" ->
               LET effectiveAR == Fineness(aspectRatio)
                   raw == XDiv(Real(2), XSqrt(effectiveAR))
                   cd0 == XMax(Real(1), XMin(raw, Milli(2100)))
               IN  IF XLt(reynolds, Re(10000)) THEN XMul(cd0, Milli(1100)) ELSE cd0
          [] shapeType = "streamlined" ->
               LET finenessRatio == Fineness(aspectRatio)
                   cd0 == XAdd(Milli(50), XDiv(Milli(300), XSqrt(finenessRatio)))
                   cd1 == IF isSymmetric /\ XLt(XAbs(angleDegrees), Real(5))
                          THEN XMul(cd0, Milli(800)) ELSE cd0
                   cd2 == IF XGt(teAngle, Real(20))
                          THEN XAdd(cd1, XMul(Milli(100), XDiv(XSub(teAngle, Real(20)), Real(70))))
                          ELSE cd1
               IN  IF XGt(angleRad, DivI(PI, 12))
                   THEN LET sn == MathSin(angleRad)
                        IN  XMul(cd2, Scale + MulF(Milli(1200), MulF(sn, sn)))
                   ELSE cd2
          [] OTHER ->
               LET finenessRatio == Fineness(aspectRatio)
                   cd0 == XAdd(Real(1), XDiv(Milli(500), finenessRatio))
                   cd1 == XMul(cd0, XAdd(Milli(850), XMul(Milli(150), solidity)))
               IN  IF XLt(reynolds, Re(10000)) THEN XMul(cd1, Milli(1050)) ELSE cd1

\* Math.max(0.01, Math.min(cd, 2.5))
ClampNoUpper(cd) == XMax(Milli(10), cd)
ClampCd(cd) == XMax(Milli(10), XMin(cd, Milli(2500)))

calculateDragCoefficient(shapeType, reynolds, aspectRatio, solidity, angleDegrees, geometry) ==
    ClampCd(DragModel(shapeType, reynolds, aspectRatio, solidity, angleDegrees, geometry))

calculateStrouhal(shapeType, reynolds) ==
    CASE shapeType = "circular" -> IF XLt(reynolds, Re(100)) THEN Milli(100) ELSE Milli(200)
      [] shapeType = "rectangular" -> Milli(150)
      [] shapeType = "streamlined" -> Milli(100)
      [] OTHER -> Milli(180)

\* The shape-specific lift models (the switch of calculateLiftCoefficient).
LiftModel(shapeType, aspectRatio, angleDegrees, solidity, camber, thickness, isSymmetric, teAngle) ==
    LET angleRad == ToRadians(angleDegrees)
    IN  CASE shapeType = "circular" ->
               IF XGt(XAbs(angleDegrees), Real(5))
               THEN XMul(Milli(300), MathSin(XMul(Real(2), angleRad)))
               ELSE 0
          [] shapeType = "streamlined" ->
               LET alphaL0 == IF isSymmetric THEN 0 ELSE XMul(Real(-100), camber)
                   effectiveAngle == XSub(angleDegrees, alphaL0)
                   effectiveAngleRad == ToRadians(effectiveAngle)
                   kuttaFactor == IF XGt(teAngle, Real(20))
                                  THEN XMax(Milli(500), XSub(Real(1), XDiv(XSub(teAngle, Real(20)), Real(100))))
                                  ELSE Real(1)
                   arCorrection == XDiv(aspectRatio, XAdd(aspectRatio, Real(2)))
                   liftSlope == XMul(XMul(XMul(Milli(100), Milli(900)), arCorrection), kuttaFactor)
                   stallAngle == XAdd(Real(12), XMul(thickness, Real(20)))
                   x == XDiv(XAbs(effectiveAngle), stallAngle)
                   preStallLift == XMul(liftSlope, effectiveAngle)
                   separatedLift == MathSin(XMul(Real(2), effectiveAngleRad))
               IN  IF XLt(x, Milli(800)) THEN preStallLift
                   ELSE IF XLt(x, Milli(1500))
                   THEN LET t == XDiv(XSub(x, Milli(800)), Milli(1500) - Milli(800))
                            blend == XDiv(XAdd(Real(1), MathCos(XMul(PI, t))), Real(2))
                            peakBoost == XMul(Milli(100), MathSin(XMul(PI, t)))
                        IN  XAdd(XAdd(XMul(preStallLift, blend),
                                      XMul(separatedLift, XSub(Real(1), blend))), peakBoost)
                   ELSE separatedLift
          [] shapeType = "rectangular" ->
               LET plate == IF XLt(XAbs(angleDegrees), Real(25))
                            THEN XMul(Milli(1100), MathSin(XMul(Real(2), angleRad)))
                            ELSE MathSin(angleRad)
               IN  IF camber # 0 /\ ~isSymmetric
                   THEN XAdd(plate, XMul(camber, Real(2)))
                   ELSE plate
          [] OTHER ->
               LET cross == XMul(Milli(500), MathSin(XMul(Real(2), angleRad)))
               IN  IF XLt(solidity, Milli(500)) THEN XMul(cross, Milli(500)) ELSE cross

\* if (reynolds < 100000) cl *= clamp(0.4 + 0.6 * log10(max(1, Re)) / 5, 0.1, 1)
ReynoldsCorrection(cl, reynolds) ==
    IF XLt(reynolds, Re(100000))
    THEN LET re1 == XMax(Re(1), reynolds)
             factor == Milli(400) + MulF(Milli(600), DivI(Log10Ratio(re1, ReScale), 5))
         IN  XMul(cl, XMin(Real(1), XMax(Milli(100), factor)))
    ELSE cl

\* The symmetric early return: isSymmetric && Math.abs(angleDegrees) < 0.5
SymmetricAtZeroNever(isSymmetric, angleDegrees) == FALSE
SymmetricAtZero(isSymmetric, angleDegrees) ==
    isSymmetric /\ XLt(XAbs(angleDegrees), Milli(500))

calculateLiftCoefficientFromTwo(shapeType, reynolds, aspectRatio, angleDegrees, solidity, geometry) ==
    LET camber      == IF HasGeometry(geometry) THEN Field(geometry, "camber") ELSE 0
        thickness   == IF HasGeometry(geometry) THEN Field(geometry, "thickness") ELSE Milli(120)
        isSymmetric == IF HasGeometry(geometry) THEN Truthy(geometry, "isSymmetric") ELSE FALSE
        teAngle     == IF HasGeometry(geometry) THEN Field(geometry, "teAngle") ELSE Real(30)
        canLift     == \/ shapeType = "streamlined"
                       \/ ~XLt(aspectRatio, Real(2))
                       \/ XLt(aspectRatio, Milli(500))
                       \/ XGt(XAbs(camber), Milli(1))
    IN  IF ~canLift /\ XLt(XAbs(angleDegrees), Real(10)) THEN 0
        ELSE IF SymmetricAtZero(isSymmetric, angleDegrees) THEN 0
        ELSE ReynoldsCorrection(
                 LiftModel(shapeType, aspectRatio, angleDegrees, solidity,
                           camber, thickness, isSymmetric, teAngle),
                 reynolds)

calculateLiftCoefficient(shapeType, reynolds, aspectRatio, angleDegrees, solidity, geometry) ==
    LET camber      == IF HasGeometry(geometry) THEN Field(geometry, "camber") ELSE 0
        thickness   == IF HasGeometry(geometry) THEN Field(geometry, "thickness") ELSE Milli(120)
        isSymmetric == IF HasGeometry(geometry) THEN Truthy(geometry, "isSymmetric") ELSE FALSE
        teAngle     == IF HasGeometry(geometry) THEN Field(geometry, "teAngle") ELSE Real(30)
        canLift     == \/ shapeType = "streamlined"
                       \/ XGt(aspectRatio, Real(2))
                       \/ XLt(aspectRatio, Milli(500))
                       \/ XGt(XAbs(camber), Milli(1))
    IN  IF ~canLift /\ XLt(XAbs(angleDegrees), Real(10)) THEN 0
        ELSE IF SymmetricAtZero(isSymmetric, angleDegrees) THEN 0
        ELSE ReynoldsCorrection(
                 LiftModel(shapeType, aspectRatio, angleDegrees, solidity,
                           camber, thickness, isSymmetric, teAngle),
                 reynolds)

\* ------------------------------------------------------------------------
\* The solver
\* ------------------------------------------------------------------------
\* a || b on numbers: undefined, NaN and 0 are falsy.
OrElse(a, b) == IF IsNaN(a) \/ a = 0 THEN b ELSE a

\* One turn of the loops  while (a > 180) a -= 360;  while (a < -180) a += 360;
NormalizeStepDownOnly(a) == IF a > Real(180) THEN a - Real(360) ELSE a
NormalizeStep(a) ==
    IF a > Real(180) THEN a - Real(360)
    ELSE IF a < Real(-180) THEN a + Real(360)
    ELSE a

Normalized(a) == NormalizeStep(a) = a

RECURSIVE NormalizeAngle(_)
NormalizeAngle(a) == IF Normalized(a) THEN a ELSE NormalizeAngle(NormalizeStep(a))

\* x.toFixed(d): a TypeError when x is undefined.
CanFormat(x) == x # Undefined

\* The body of calculateDrag is a sequence of const declarations.  A frame
\* is the record of the locals declared so far; a statement maps the frame
\* to the frame after it.  Then runs the next statement on the stored frame,
\* unless an earlier statement threw.
Then(frame, Statement(_)) ==
    CHOOSE next \in {IF f.threw THEN f ELSE Statement(f) : f \in {frame}} : TRUE

\* Steps 1 and 2: the inputs and the rotation.  points is the caller's array
\* as the call leaves it.
Rotated(points0, params, angleDegrees) ==
    [threw |-> FALSE,
     angleDegrees |-> angleDegrees,
     velocityMs |-> XDiv(Field(params, "windSpeed"), Milli(3600)),
     rho |-> OrElse(Field(params, "airDensity"), Milli(1225)),
     mu |-> AIR_DYNAMIC_VISCOSITY,
     rotatedPoints |-> rotatePoints(points0, angleDegrees),
     points |-> rotatePointsArgument(points0, angleDegrees)]

\* Step 2: the bounds of the rotated points; step 3: the polygon's area.
Bounded(f) ==
    f @@ [bounds |-> getBoundingBox(f.rotatedPoints),
          polygonArea |-> calculatePolygonArea(f.points)]

\* Step 3: the geometric properties.
Measured(f) ==
    LET bounds == f.bounds
        heightM == XDiv(bounds.height, Real(PIXELS_PER_METER))
        widthM  == XDiv(bounds.width, Real(PIXELS_PER_METER))
        boxArea == XMul(bounds.width, bounds.height)
    IN  f @@ [heightM |-> heightM,
              widthM |-> widthM,
              frontalArea |-> heightM,
              referenceArea |-> XMax(heightM, widthM),
              solidity |-> IF XGt(boxArea, 0) THEN XDiv(f.polygonArea, boxArea) ELSE Real(1),
              aspectRatio |-> IF XGt(bounds.height, 0)
                              THEN XDiv(bounds.width, bounds.height) ELSE Real(1)]

\* Step 5: the class.
Classified(f) == f @@ [shapeType |-> classifyShape(f.points, f.bounds, f.solidity)]

\* Step 4: the characteristic length.
SizedByArea(f) ==
    f @@ [characteristicLength |->
            XSqrt(XDiv(f.polygonArea, Real(PIXELS_PER_METER * PIXELS_PER_METER)))]

Sized(f) ==
    f @@ [characteristicLength |->
            IF f.shapeType = "circular" \/ f.shapeType = "streamlined"
            THEN XDiv(f.bounds.width, Real(PIXELS_PER_METER))
            ELSE XSqrt(XDiv(f.polygonArea, Real(PIXELS_PER_METER * PIXELS_PER_METER)))]

\* Step 4: the Reynolds number; step 6: the analysis of the points as given.
Analyzed(f) ==
    CHOOSE next \in
      { IF "throws" \in DOMAIN geometry
        THEN [threw |-> TRUE, points |-> f.points, error |-> geometry.throws]
        ELSE f @@ [reynolds |-> calculateReynolds(f.velocityMs, f.characteristicLength,
                                                  f.rho, f.mu),
                   geometry |-> geometry]
        : geometry \in {analyzeGeometry(f.points, getBoundingBox(f.points))} } : TRUE

\* Steps 7, 8 and 10: the coefficients.  The drag coefficient is asked for
\* without the geometry.
Rated(f) ==
    f @@ [cd |-> calculateDragCoefficient(f.shapeType, f.reynolds, f.aspectRatio,
                                          f.solidity, f.angleDegrees, NoGeometry),
          cl |-> calculateLiftCoefficient(f.shapeType, f.reynolds, f.aspectRatio,
                                          f.angleDegrees, f.solidity, f.geometry),
          strouhal |-> calculateStrouhal(f.shapeType, f.reynolds),
          q |-> XMul(XMul(XMul(Milli(500), f.rho), f.velocityMs), f.velocityMs)]

LoadedUnguarded(f) ==
    f @@ [dragForce |-> XMul(XMul(f.q, f.frontalArea), f.cd),
          liftForce |-> XMul(XMul(f.q, f.referenceArea), f.cl),
          vortexFrequency |-> XDiv(XMul(f.strouhal, f.velocityMs), f.characteristicLength),
          pressureDragRatio |-> IF f.shapeType = "streamlined" THEN Milli(600)
                                ELSE IF f.shapeType = "circular" THEN Milli(850)
                                ELSE Milli(900)]

\* Steps 9 and 10: the forces and the shedding frequency.
Loaded(f) ==
    f @@ [dragForce |-> XMul(XMul(f.q, f.frontalArea), f.cd),
          liftForce |-> XMul(XMul(f.q, f.referenceArea), f.cl),
          vortexFrequency |-> IF XGt(f.characteristicLength, 0)
                              THEN XDiv(XMul(f.strouhal, f.velocityMs), f.characteristicLength)
                              ELSE 0,
          pressureDragRatio |-> IF f.shapeType = "streamlined" THEN Milli(600)
                                ELSE IF f.shapeType = "circular" THEN Milli(850)
                                ELSE Milli(900)]

\* Step 11: the record returned.  A missing field of geometry makes toFixed
\* throw.
Returned(f) ==
    LET camber == Field(f.geometry, "camber")
        thickness == Field(f.geometry, "thickness")
    IN  IF ~CanFormat(camber) \/ ~CanFormat(thickness)
        THEN [threw |-> TRUE, points |-> f.points, error |-> "TypeError"]
        ELSE [threw |-> FALSE, points |-> f.points, value |->
              [cd |-> Round(f.cd, 10),
               cl |-> Round(f.cl, 10),
               dragForce |-> Round(f.dragForce, 100),
               liftForce |-> Round(f.liftForce, 100),
               area |-> Round(f.frontalArea, 1),
               referenceArea |-> Round(f.referenceArea, 1),
               reynolds |-> Round(f.reynolds, ReScale),
               shapeType |-> f.shapeType,
               vortexFrequency |-> Round(f.vortexFrequency, 100),
               strouhal |-> Round(f.strouhal, 10),
               pressureDrag |-> Round(XMul(f.dragForce, f.pressureDragRatio), 100),
               frictionDrag |-> Round(XMul(f.dragForce, Real(1) - f.pressureDragRatio), 100),
               debug |-> [velocityMs |-> Round(f.velocityMs, 100),
                          widthM |-> Round(f.widthM, 10),
                          heightM |-> Round(f.heightM, 10),
                          characteristicLength |-> Round(f.characteristicLength, 10),
                          aspectRatio |-> Round(f.aspectRatio, 10),
                          solidity |-> Round(f.solidity, 10),
                          camber |-> Round(camber, 1),
                          thickness |-> Round(thickness, 1),
                          alphaL0 |-> Round(XMul(Real(-100), camber), 1000)]]]

\* Steps 2 to 11 of calculateDrag, angleDegrees already normalized.  The
\* value is [threw |-> FALSE, points, value] or [threw |-> TRUE, points,
\* error].
SolveRotated(points0, params, angleDegrees) ==
    Then(Then(Then(Then(Then(Then(Then(Then(
        Rotated(points0, params, angleDegrees),
        Bounded), Measured), Classified), Sized), Analyzed), Rated), Loaded), Returned)

calculateDrag(points, params) ==
    SolveRotated(points, params, NormalizeAngle(OrElse(Field(params, "angle"), 0)))

\* ------------------------------------------------------------------------
\* Callers of the engine: the inputs they may pass
\* ------------------------------------------------------------------------
\* A polygon given in whole pixels.
Px(s) == [i \in 1..Len(s) |-> <<Real(s[i][1]), Real(s[i][2])>>]

Catalogue ==
    << Px(<< <<0, 0>>, <<100, 0>>, <<100, 100>>, <<0, 100>> >>),
       Px(<< <<100, 50>>, <<75, 93>>, <<25, 93>>, <<0, 50>>, <<25, 7>>, <<75, 7>> >>),
       Px(<< <<0, 50>>, <<60, 40>>, <<200, 50>>, <<60, 60>> >>),
       Px(<< <<0, 50>>, <<80, 30>>, <<200, 50>> >>),
       Px(<< <<0, 0>>, <<100, 0>>, <<50, 80>> >>),
       Px(<< <<0, 0>>, <<200, 0>>, <<200, 40>>, <<0, 40>> >>),
       Px(<< <<50, 0>>, <<50, 50>>, <<50, 100>> >>),
       Px(<< <<0, 50>>, <<50, 50>>, <<100, 50>> >>),
       Px(<< <<0, 0>>, <<100, 0>> >>),
       Px(<< <<50, 50>> >>),
       <<>>,
       Px(<< <<0, 0>>, <<40, 0>>, <<40, 200>>, <<0, 200>> >>),
       Px(<< <<0, 0>>, <<100, 20>>, <<0, 40>> >>) >>

Polygons == {Catalogue[i] : i \in 1..(IF MaxPolys < Len(Catalogue) THEN MaxPolys ELSE Len(Catalogue))}

Square == Catalogue[1]

\* The 64 points the canvas sends for a circle of that radius: the vertex i
\* stands at the angle (i / 64) * 2 * PI.
CircleVertices(radius) ==
    [k \in 1..64 |-> <<MulF(MathCos(DivI((k - 1) * 2 * PI, 64)), radius),
                       MulF(MathSin(DivI((k - 1) * 2 * PI, 64)), radius)>>]

Circle64 == CircleVertices(Real(50))

\* A wedge that ends in a vertical edge: five times as wide as high, with a
\* trailing-edge angle of 84 degrees.
BluntWedge == Px(<< <<0, 20>>, <<200, 0>>, <<200, 40>> >>)

\* The polygons a caller passes.
Shapes == Polygons \cup {Circle64, BluntWedge}

WindSpeeds == {0, Real(50), Real(100), Undefined}
Densities == {Milli(1225), Undefined}
BaseAngles == {Real(-180), Real(-45), 0, Milli(300), Real(30), Real(45), Real(180)}
Angles == {b + k * Real(360) : b \in BaseAngles, k \in (-MaxTurns)..MaxTurns} \cup {Undefined}

Params == [windSpeed : WindSpeeds, angle : Angles, airDensity : Densities]

\* Inputs of the geometric helpers called on their own, in floating point:
\* coordinates as the canvas sends them, with fractions.
Fx(s) == [i \in 1..Len(s) |-> <<FloatOf(s[i][1], 10), FloatOf(s[i][2], 10)>>]

Quadrilateral == Fx(<< <<91, 115>>, <<119, 54>>, <<112, 6>>, <<59, 32>> >>)

FloatPolygons ==
    { Quadrilateral,
      Fx(<< <<0, 0>>, <<100, 0>>, <<100, 100>>, <<0, 100>> >>),
      Fx(<< <<10, 20>>, <<90, 20>>, <<90, 50>>, <<10, 50>> >>),
      Fx(<< <<1, 2>>, <<103, 7>>, <<55, 99>> >>),
      Fx(<< <<68, 53>>, <<103, 114>>, <<94, 37>>, <<55, 6>> >>),
      Fx(<< <<100, 50>>, <<75, 93>>, <<25, 93>>, <<0, 50>>, <<25, 7>>, <<75, 7>> >>) }

FloatAngles == {0, Milli(300), Real(30), Real(45), Real(90), Real(-120), Real(180)}

Reversed(s) == [i \in 1..Len(s) |-> s[Len(s) + 1 - i]]

\* Inputs of the coefficient models and the classifier called on their own.
ShapeTypes == {"circular", "rectangular", "streamlined", "bluff", "other"}
ProbeReynolds == {0, Re(1) \div 2, Re(1), Re(5000), Re(10000), Re(99999), Re(200000),
                  Re(350000), Re(500000), Re(10^7)}
ProbeAspectRatios == {1, Milli(200), Milli(500), Real(1), Real(2), Real(3), Real(12)}
ProbeSolidities == {0, Milli(400), Real(1)}
ProbeAngles == {0, Milli(300), Milli(-400), Milli(500), Real(3), Real(10), Real(-12), Real(30),
                Real(170)}
ProbeGeometries ==
    { NoGeometry,
      [camber |-> 0, thickness |-> Milli(120), isSymmetric |-> TRUE,
       teAngle |-> Real(10), leRadius |-> Milli(50)],
      [camber |-> Milli(15), thickness |-> Milli(100), isSymmetric |-> TRUE,
       teAngle |-> Real(90), leRadius |-> Milli(50)],
      [camber |-> Milli(-1), thickness |-> Milli(100), isSymmetric |-> FALSE,
       teAngle |-> Real(10), leRadius |-> Milli(50)],
      [camber |-> Milli(40), thickness |-> Milli(100), isSymmetric |-> FALSE,
       teAngle |-> Real(180), leRadius |-> 0],
      [maxCamber |-> 0, thickness |-> 0, isSymmetric |-> TRUE,
       teAngle |-> Real(180), leRadius |-> 0] }
ProbeExtents == {0, Real(30), Real(33), Real(80), Real(100), Real(124), Real(125), Real(301)}
ProbeClassSolidities == {0, Milli(700), Milli(750), Milli(820), Milli(850), Milli(900), Real(1)}
ProbeCounts == 3..5

\* ------------------------------------------------------------------------
\* State
\* ------------------------------------------------------------------------
VARIABLES
    pc,             \* where the current call of calculateDrag stands
    points,         \* the caller's points array
    params,         \* the caller's params object
    entry,          \* points and params as they were when the call began
    angleDegrees,   \* the local angleDegrees of the call
    loopIterations, \* loop iterations the call has performed
    result,         \* what the call returned or threw
    remembered,     \* an earlier finished call, kept for comparison
    probe,          \* the last direct call of a helper, with its value
    app,            \* the state of the App component in the browser
    db,             \* the Test collection, in the order of insertion
    net,            \* the requests and responses in flight
    now,            \* the clock of the server
    served,         \* the last request to /simulate handled, with what was sent
    canvas          \* the SimulationCanvas component: objects, drawing mode, particles

appVars == <<app, db, net, now, served, canvas>>

vars == <<pc, points, params, entry, angleDegrees, loopIterations, result, remembered, probe,
          appVars>>

None == [set |-> FALSE]
NoProbe == [fn |-> "none"]
NoParams == [windSpeed |-> Undefined, angle |-> Undefined, airDensity |-> Undefined]

\* null, and a request without a body.
Null == [null |-> TRUE]
NoBody == [nobody |-> TRUE]

\* useState({ windSpeed: 50, angle: 0, airDensity: 1.225 })
DefaultParams == [windSpeed |-> Real(50), angle |-> 0, airDensity |-> Milli(1225)]

Request(from, variant, path, method, body) ==
    [kind |-> "request", from |-> from, variant |-> variant, path |-> path,
     method |-> method, body |-> body]

Response(to, path, status, body) ==
    [kind |-> "response", to |-> to, path |-> path, status |-> status, body |-> body]

InFlight(party, path) ==
    {m \in net : m.path = path /\ (IF m.kind = "request" THEN m.from ELSE m.to) = party}

\* The objects of the Fabric canvas.  left and top are the centre.
Rect(left, top, width, height) ==
    [type |-> "rect", left |-> left, top |-> top, width |-> width, height |-> height]
Triangle(left, top, width, height) ==
    [type |-> "triangle", left |-> left, top |-> top, width |-> width, height |-> height]
Circle(left, top, radius) ==
    [type |-> "circle", left |-> left, top |-> top, radius |-> radius,
     width |-> 2 * radius, height |-> 2 * radius]
Polygon(pts) ==
    [type |-> "polygon", points |-> pts,
     left |-> getCentroid(pts).x, top |-> getCentroid(pts).y,
     width |-> getBoundingBox(pts).width, height |-> getBoundingBox(pts).height]
Line(from, to) ==
    [type |-> "line", left |-> DivI(from[1] + to[1], 2), top |-> DivI(from[2] + to[2], 2),
     width |-> AbsI(to[1] - from[1]), height |-> AbsI(to[2] - from[2])]

\* addRect: the default shape.
DefaultRect == Rect(Real(300), Real(250), Real(100), Real(20))

\* The overlay the particles move in.
Overlay == [width |-> Real(190), height |-> Real(500)]

\* createParticle and resetParticle: y is random; size and alpha do not
\* change afterwards and are left out.
StartHeights == {Real(100), Real(250)}
createParticle(x, y) ==
    [x |-> x, y |-> y, vx |-> Real(3), vy |-> 0, heat |-> 0, trail |-> <<>>,
     collisionCooldown |-> 0, lastX |-> x, lastY |-> y, stagnantFrames |-> 0]
resetParticle(y) == createParticle(Real(-10), y)

\* The component after it is mounted: the default rectangle, no drawing,
\* the animation running.
ParticleCount == 1
InitialCanvas ==
    [objects |-> <<DefaultRect>>, isDrawing |-> FALSE, drawPoints |-> <<>>,
     tempObjects |-> <<>>, currentLine |-> Null, isPaused |-> FALSE,
     particles |-> [i \in 1..ParticleCount |-> createParticle(0, Real(100))]]

Init ==
    /\ canvas = InitialCanvas
    /\ pc = "idle"
    /\ points = <<>>
    /\ params = NoParams
    /\ entry = None
    /\ angleDegrees = 0
    /\ loopIterations = 0
    /\ result = None
    /\ remembered = None
    /\ probe = NoProbe
    /\ app = [params |-> DefaultParams, currentShape |-> Null, currentResult |-> Null,
              testResults |-> <<>>, isSaving |-> FALSE, saveMessage |-> Null]
    /\ db = <<>>
    /\ net = {Request("app", "express", "/tests", "GET", NoBody)}
    /\ now = 0
    /\ served = None

\* Iterations of the scans over the vertices in one call: getCentroid, map,
\* getBoundingBox twice, calculatePolygonArea, and in analyzeGeometry the two
\* loops and the two indexOf searches.
ScanIterations(pts) ==
    LET n == Len(pts)
        b == getBoundingBox(pts)
    IN  5 * n + (IF n = 0 \/ XSub(b.maxX, b.minX) = 0 THEN 0
                 ELSE 2 * n + NearestX(pts, b.minX) + NearestX(pts, b.maxX))

\* calculateDrag(points, params) is entered: lines 555-558.
Begin(pts, prm) ==
    /\ pc = "idle"
    /\ probe = NoProbe
    /\ pc' = "normalizing"
    /\ points' = pts
    /\ params' = prm
    /\ entry' = [set |-> TRUE, points |-> pts, params |-> prm]
    /\ angleDegrees' = OrElse(Field(prm, "angle"), 0)
    /\ loopIterations' = 0
    /\ result' = None
    /\ UNCHANGED <<remembered, probe>>
    /\ UNCHANGED appVars

\* One iteration of either while loop of lines 561-562.
NormalizeTurn ==
    /\ pc = "normalizing"
    /\ ~Normalized(angleDegrees)
    /\ angleDegrees' = NormalizeStep(angleDegrees)
    /\ loopIterations' = loopIterations + 1
    /\ UNCHANGED <<pc, points, params, entry, result, remembered, probe>>
    /\ UNCHANGED appVars

\* Lines 563-691: the rest of the call, to its return or its exception.
Solve ==
    /\ pc = "normalizing"
    /\ Normalized(angleDegrees)
    /\ \E r \in {SolveRotated(points, params, angleDegrees)} :
           /\ pc' = IF r.threw THEN "threw" ELSE "returned"
           /\ points' = r.points
           /\ result' = IF r.threw THEN [set |-> TRUE, threw |-> TRUE, error |-> r.error]
                        ELSE [set |-> TRUE, threw |-> FALSE, value |-> r.value]
    /\ loopIterations' = loopIterations + ScanIterations(points)
    /\ UNCHANGED <<params, entry, angleDegrees, remembered, probe>>
    /\ UNCHANGED appVars

\* The caller is done with the call and drops its objects.
Finish ==
    /\ pc \in {"returned", "threw"}
    /\ pc' = "idle"
    /\ points' = <<>>
    /\ params' = NoParams
    /\ entry' = None
    /\ angleDegrees' = 0
    /\ loopIterations' = 0
    /\ result' = None
    /\ UNCHANGED <<remembered, probe>>
    /\ UNCHANGED appVars

\* The calls a caller keeps for comparison with later ones.
Memorable(e) ==
    /\ e.points = Square
    /\ e.params.windSpeed = Real(50)
    /\ e.params.airDensity = Undefined
    /\ e.params.angle \in {0, Real(45)}

\* The caller is done with the call and keeps its inputs and its outcome.
Remember ==
    /\ pc \in {"returned", "threw"}
    /\ remembered = None
    /\ Memorable(entry)
    /\ remembered' = [set |-> TRUE, points |-> entry.points, params |-> entry.params,
                      result |-> result]
    /\ pc' = "idle"
    /\ points' = <<>>
    /\ params' = NoParams
    /\ entry' = None
    /\ angleDegrees' = 0
    /\ loopIterations' = 0
    /\ result' = None
    /\ UNCHANGED probe
    /\ UNCHANGED appVars

ProbeIdle == pc = "idle" /\ probe = NoProbe /\ remembered = None

ProbeDragCoefficient(shapeType, reynolds, aspectRatio, solidity, angle, geometry) ==
    /\ ProbeIdle
    /\ probe' = [fn |-> "calculateDragCoefficient", shapeType |-> shapeType,
                 reynolds |-> reynolds, aspectRatio |-> aspectRatio,
                 solidity |-> solidity, angleDegrees |-> angle, geometry |-> geometry,
                 out |-> calculateDragCoefficient(shapeType, reynolds, aspectRatio,
                                                  solidity, angle, geometry)]
    /\ UNCHANGED <<pc, points, params, entry, angleDegrees, loopIterations, result, remembered>>
    /\ UNCHANGED appVars

ProbeLiftCoefficient(shapeType, reynolds, aspectRatio, solidity, angle, geometry) ==
    /\ ProbeIdle
    /\ probe' = [fn |-> "calculateLiftCoefficient", shapeType |-> shapeType,
                 reynolds |-> reynolds, aspectRatio |-> aspectRatio,
                 solidity |-> solidity, angleDegrees |-> angle, geometry |-> geometry,
                 out |-> calculateLiftCoefficient(shapeType, reynolds, aspectRatio,
                                                  angle, solidity, geometry)]
    /\ UNCHANGED <<pc, points, params, entry, angleDegrees, loopIterations, result, remembered>>
    /\ UNCHANGED appVars

ProbeClassifyShape(count, width, height, solidity) ==
    /\ ProbeIdle
    /\ probe' = [fn |-> "classifyShape", count |-> count, width |-> width,
                 height |-> height, solidity |-> solidity,
                 out |-> classifyShape([i \in 1..count |-> <<0, 0>>],
                                       [width |-> width, height |-> height], solidity)]
    /\ UNCHANGED <<pc, points, params, entry, angleDegrees, loopIterations, result, remembered>>
    /\ UNCHANGED appVars

ProbeAnalyzeGeometry(pts) ==
    /\ ProbeIdle
    /\ \E bounds \in {getBoundingBox(pts)} :
          probe' = [fn |-> "analyzeGeometry", points |-> pts, bounds |-> bounds,
                    out |-> analyzeGeometry(pts, bounds)]
    /\ UNCHANGED <<pc, points, params, entry, angleDegrees, loopIterations, result, remembered>>
    /\ UNCHANGED appVars

ProbeRotatePoints(pts, angle) ==
    /\ ProbeIdle
    /\ probe' = [fn |-> "rotatePoints", points |-> pts, angleDegrees |-> angle,
                 out |-> rotatePointsFloat(pts, angle)]
    /\ UNCHANGED <<pc, points, params, entry, angleDegrees, loopIterations, result, remembered>>
    /\ UNCHANGED appVars

ProbePolygonArea(pts) ==
    /\ ProbeIdle
    /\ probe' = [fn |-> "calculatePolygonArea", points |-> pts,
                 out |-> calculatePolygonAreaFloat(pts)]
    /\ UNCHANGED <<pc, points, params, entry, angleDegrees, loopIterations, result, remembered>>
    /\ UNCHANGED appVars

ProbeDone ==
    /\ pc = "idle"
    /\ probe # NoProbe
    /\ probe' = NoProbe
    /\ UNCHANGED <<pc, points, params, entry, angleDegrees, loopIterations, result, remembered>>
    /\ UNCHANGED appVars

\* The guards shared by all instances of an action stand before its
\* quantifier, so that they are evaluated once per state.
CanBegin == pc = "idle" /\ probe = NoProbe

Next ==
    \/ CanBegin /\ \E pts \in Shapes, prm \in Params : Begin(pts, prm)
    \/ NormalizeTurn
    \/ Solve
    \/ Finish
    \/ Remember
    \/ ProbeIdle /\ \E st \in ShapeTypes, re \in ProbeReynolds, ar \in ProbeAspectRatios,
                       so \in ProbeSolidities, an \in ProbeAngles, g \in ProbeGeometries :
                         ProbeDragCoefficient(st, re, ar, so, an, g)
    \/ ProbeIdle /\ \E st \in ShapeTypes, re \in ProbeReynolds, ar \in ProbeAspectRatios,
                       so \in ProbeSolidities, an \in ProbeAngles, g \in ProbeGeometries :
                         ProbeLiftCoefficient(st, re, ar, so, an, g)
    \/ ProbeIdle /\ \E c \in ProbeCounts, w \in ProbeExtents, h \in ProbeExtents,
                       so \in ProbeClassSolidities : ProbeClassifyShape(c, w, h, so)
    \/ ProbeIdle /\ \E pts \in Shapes : ProbeAnalyzeGeometry(pts)
    \/ ProbeIdle /\ \E pts \in FloatPolygons, an \in FloatAngles : ProbeRotatePoints(pts, an)
    \/ ProbeIdle /\ \E pts \in FloatPolygons : ProbePolygonArea(pts)
    \/ ProbeDone

Spec == Init /\ [][Next]_vars

\* ------------------------------------------------------------------------
\* The application: browser, routes and collection
\* ------------------------------------------------------------------------
\* What the user may set and draw.
UiChanges == {<<"windSpeed", Real(100)>>, <<"windSpeed", Real(50)>>,
              <<"angle", Real(45)>>, <<"angle", 0>>}
UiShapes == {Square, Catalogue[7]}

\* Bodies and methods of requests sent to /simulate by any client.
Bodies ==
    {NoBody}
    \cup [parameters : {DefaultParams, <<>>}]
    \cup [shape : {<<>>}, parameters : {DefaultParams}]
    \cup [shape : [points : {Square, Catalogue[7], Catalogue[9], <<>>}]]
    \cup [shape : [points : {Square, Catalogue[7], Catalogue[9], <<>>}],
          parameters : {DefaultParams, [DefaultParams EXCEPT !.angle = Real(45)], <<>>}]
Methods == {"POST", "OPTIONS", "GET", "PUT"}

Has(obj, name) == name \in DOMAIN obj

\* The steps of the application leave the probed engine alone.
EngineOnly ==
    UNCHANGED <<pc, points, params, entry, angleDegrees, loopIterations, result, remembered,
                probe>>

\* The steps between the page and the server leave the canvas alone too.
EngineIdle == EngineOnly /\ UNCHANGED canvas

\* if (!shape || !shape.points || !parameters)
InvalidBody(body) ==
    \/ ~Has(body, "shape")
    \/ ~Has(body.shape, "points")
    \/ ~Has(body, "parameters")

ErrorObject(text) == [error |-> text]

\* What the try block of the route sends: destructuring a missing body
\* throws, as the engine may, and the catch block answers 500.
SimulateTryNoReturn(body) ==
    IF body = NoBody THEN <<[status |-> 500, body |-> ErrorObject("Simulation failed")]>>
    ELSE IF InvalidBody(body)
    THEN <<[status |-> 400, body |-> ErrorObject("Invalid input")],
           [status |-> 500, body |-> ErrorObject("Simulation failed")]>>
    ELSE CHOOSE sent \in
           {IF r.threw THEN <<[status |-> 500, body |-> ErrorObject("Simulation failed")]>>
            ELSE <<[status |-> 200, body |-> r.value]>> :
               r \in {calculateDrag(body.shape.points, body.parameters)}} : TRUE

SimulateTry(body) ==
    IF body = NoBody THEN <<[status |-> 500, body |-> ErrorObject("Simulation failed")]>>
    ELSE IF InvalidBody(body)
    THEN <<[status |-> 400, body |-> ErrorObject("Invalid input")]>>
    ELSE CHOOSE sent \in
           {IF r.threw THEN <<[status |-> 500, body |-> ErrorObject("Simulation failed")]>>
            ELSE <<[status |-> 200, body |-> r.value]>> :
               r \in {calculateDrag(body.shape.points, body.parameters)}} : TRUE

\* The serverless handler before its try block: what it sends for a method
\* that is not POST.
MethodGuard(method) ==
    IF method = "OPTIONS" THEN <<[status |-> 200, body |-> NoBody]>>
    ELSE <<[status |-> 405, body |-> ErrorObject("Method not allowed")]>>

\* A client sends a request to /simulate; the router takes POST only.
SendSimulate(variant, method, body) ==
    /\ InFlight("client", "/simulate") = {}
    /\ variant = "express" => method = "POST"
    /\ net' = net \cup {Request("client", variant, "/simulate", method, body)}
    /\ UNCHANGED <<app, db, now, served>>
    /\ EngineIdle

\* Another client saves a test of its own.
SendSaveTest ==
    /\ InFlight("client", "/save-test") = {}
    /\ net' = net \cup {Request("client", "express", "/save-test", "POST",
                                [shape |-> [points |-> Square], parameters |-> DefaultParams,
                                 results |-> [area |-> Real(1), cd |-> Real(2),
                                              dragForce |-> Real(1)]])}
    /\ UNCHANGED <<app, db, now, served>>
    /\ EngineIdle

\* The client drops the response it got.
Take ==
    \E m \in net :
        /\ m.kind = "response" /\ m.to = "client"
        /\ net' = net \ {m}
        /\ UNCHANGED <<app, db, now, served>>
        /\ EngineIdle

\* Controls.handleChange and handleAngleChange.
handleChange(name, value) ==
    /\ app.params[name] # value
    /\ app' = [app EXCEPT !.params[name] = value]
    /\ UNCHANGED <<db, net, now, served>>
    /\ EngineIdle

\* handleRunTest up to its first await.
handleRunTest(shapeData) ==
    /\ app' = [app EXCEPT !.currentShape = shapeData, !.saveMessage = Null]
    /\ net' = net \cup {Request("app", "express", "/simulate", "POST",
                                [shape |-> shapeData, parameters |-> app.params])}
    /\ UNCHANGED <<db, now, served>>
    /\ EngineIdle

\* The server answers a request to /simulate.  Where the request has no
\* body, express.json() leaves req.body undefined or an empty object,
\* depending on the version of the framework.
ServeSimulate ==
    \E m \in net :
        /\ m.kind = "request" /\ m.path = "/simulate"
        /\ \E body \in (IF m.variant = "express" /\ m.body = NoBody THEN {NoBody, <<>>}
                        ELSE {m.body}) :
           \E sent \in {IF m.variant = "serverless" /\ m.method # "POST"
                        THEN MethodGuard(m.method)
                        ELSE SimulateTry(body)} :
              /\ net' = (net \ {m}) \cup
                        {Response(m.from, m.path, sent[i].status, sent[i].body) :
                            i \in 1..Len(sent)}
              /\ served' = [set |-> TRUE, request |-> m, sent |-> sent]
        /\ UNCHANGED <<app, db, now>>
        /\ EngineIdle

\* handleRunTest after its awaits: the body of the response, whatever its
\* status, becomes the current result.
ReceiveSimulate ==
    \E m \in InFlight("app", "/simulate") :
        /\ m.kind = "response"
        /\ app' = [app EXCEPT !.currentResult = m.body]
        /\ net' = net \ {m}
        /\ UNCHANGED <<db, now, served>>
        /\ EngineIdle

\* handleSaveTest up to its await; the Save button is disabled while saving.
handleSaveTest ==
    /\ app.currentResult # Null
    /\ app.currentShape # Null
    /\ ~app.isSaving
    /\ app' = [app EXCEPT !.isSaving = TRUE, !.saveMessage = Null]
    /\ net' = net \cup {Request("app", "express", "/save-test", "POST",
                                [shape |-> app.currentShape, parameters |-> app.params,
                                 results |-> app.currentResult])}
    /\ UNCHANGED <<db, now, served>>
    /\ EngineIdle

\* new Test({ shape, parameters, results }): the fields of the schema, with
\* createdAt from the clock.
Test(body, id) ==
    [id |-> id,
     shape |-> [type |-> "polygon", points |-> body.shape.points],
     parameters |-> [k \in {"windSpeed", "angle", "airDensity"} |-> body.parameters[k]],
     results |-> [k \in {"area", "cd", "cl", "dragForce", "liftForce"} |->
                     Field(body.results, k)],
     createdAt |-> now]

\* The required paths of the schema.
Validates(body) ==
    /\ Has(body.shape, "points")
    /\ \A k \in {"windSpeed", "angle", "airDensity"} :
          Has(body.parameters, k) /\ IsFinite(body.parameters[k])
    /\ \A k \in {"area", "cd", "dragForce"} :
          Has(body.results, k) /\ IsFinite(body.results[k])

\* router.post('/save-test')
ServeSaveTest ==
    \E m \in net :
        /\ m.kind = "request" /\ m.path = "/save-test"
        /\ IF Validates(m.body)
           THEN /\ db' = Append(db, Test(m.body, Len(db) + 1))
                /\ net' = (net \ {m}) \cup
                          {Response(m.from, m.path, 201, Test(m.body, Len(db) + 1))}
           ELSE /\ db' = db
                /\ net' = (net \ {m}) \cup
                          {Response(m.from, m.path, 500, ErrorObject("Failed to save test"))}
        /\ UNCHANGED <<app, now, served>>
        /\ EngineIdle

\* response.ok
Ok(status) == status >= 200 /\ status <= 299

SaveMessage(type, text) == [type |-> type, text |-> text]

ReceiveSaveTestAnyStatus ==
    \E m \in InFlight("app", "/save-test") :
        /\ m.kind = "response"
        /\ app' = [app EXCEPT !.isSaving = FALSE,
                              !.testResults = <<m.body>> \o @,
                              !.saveMessage = SaveMessage("success", "saved")]
        /\ net' = net \ {m}
        /\ UNCHANGED <<db, now, served>>
        /\ EngineIdle

\* handleSaveTest after its await: the try block, the catch block and the
\* finally block.
ReceiveSaveTest ==
    \E m \in InFlight("app", "/save-test") :
        /\ m.kind = "response"
        /\ app' = [app EXCEPT !.isSaving = FALSE,
                              !.testResults = IF Ok(m.status) THEN <<m.body>> \o @ ELSE @,
                              !.saveMessage = IF Ok(m.status)
                                              THEN SaveMessage("success", "saved")
                                              ELSE SaveMessage("error", "failed to save")]
        /\ net' = net \ {m}
        /\ UNCHANGED <<db, now, served>>
        /\ EngineIdle

\* The fetch of handleSaveTest rejects: the request or its response is lost
\* and the catch block and the finally block run.
FailSaveTest ==
    \E m \in InFlight("app", "/save-test") :
        /\ app' = [app EXCEPT !.isSaving = FALSE,
                              !.saveMessage = SaveMessage("error", "cannot connect")]
        /\ net' = net \ {m}
        /\ UNCHANGED <<db, now, served>>
        /\ EngineIdle

\* setTimeout(() => setSaveMessage(null), 5000) after a save.
ClearSaveMessage ==
    /\ app.saveMessage # Null
    /\ ~app.isSaving
    /\ app' = [app EXCEPT !.saveMessage = Null]
    /\ UNCHANGED <<db, net, now, served>>
    /\ EngineIdle

\* The fetch of handleRunTest rejects: the request or its response is lost
\* and the catch block logs the error.
FailSimulate ==
    \E m \in InFlight("app", "/simulate") :
        /\ net' = net \ {m}
        /\ UNCHANGED <<app, db, now, served>>
        /\ EngineIdle

\* sort({ createdAt: -1 }): a comes before b.  Documents of the same
\* instant come in the order of insertion or in the opposite one.
Before(a, b, ties) ==
    \/ a.createdAt > b.createdAt
    \/ a.createdAt = b.createdAt /\ (IF ties = "natural" THEN a.id < b.id ELSE a.id > b.id)

Sorted(docs, ties) ==
    [k \in 1..Len(docs) |->
        docs[CHOOSE i \in 1..Len(docs) :
                Cardinality({j \in 1..Len(docs) : Before(docs[j], docs[i], ties)}) = k - 1]]

\* Test.find().sort({ createdAt: -1 }).limit(10)
FindRecent(docs, ties) ==
    SubSeq(Sorted(docs, ties), 1, IF Len(docs) < HistoryLimit THEN Len(docs) ELSE HistoryLimit)

\* router.get('/tests')
ServeTests ==
    \E m \in net, ties \in {"natural", "opposite"} :
        /\ m.kind = "request" /\ m.path = "/tests"
        /\ net' = (net \ {m}) \cup {Response(m.from, m.path, 200, FindRecent(db, ties))}
        /\ UNCHANGED <<app, db, now, served>>
        /\ EngineIdle

\* fetchRecentTests after its awaits.
ReceiveTests ==
    \E m \in InFlight("app", "/tests") :
        /\ m.kind = "response"
        /\ app' = [app EXCEPT !.testResults = IF m.status = 200 THEN m.body ELSE @]
        /\ net' = net \ {m}
        /\ UNCHANGED <<db, now, served>>
        /\ EngineIdle

\* handleLoadTest(test) for an entry of the history.
handleLoadTest(test) ==
    /\ app' = [app EXCEPT !.params = [windSpeed |-> test.parameters.windSpeed,
                                      angle |-> test.parameters.angle,
                                      airDensity |-> test.parameters.airDensity],
                          !.currentShape = test.shape,
                          !.currentResult = test.results,
                          !.saveMessage = Null]
    /\ app' # app
    /\ UNCHANGED <<db, net, now, served>>
    /\ EngineIdle

\* Time passes on the server.
Tick ==
    /\ now < MaxTime
    /\ now' = now + 1
    /\ UNCHANGED <<app, db, net, served>>
    /\ EngineIdle

\* Any client of /simulate, on either deployment.
ApiNext ==
    \/ \E v \in {"express", "serverless"}, me \in Methods, b \in Bodies :
           SendSimulate(v, me, b)
    \/ ServeSimulate
    \/ Take

ApiSpec == Init /\ [][ApiNext]_vars

\* The user at the page; one run at a time is followed.
AppNext ==
    \/ \E c \in UiChanges : handleChange(c[1], c[2])
    \/ \E s \in UiShapes : InFlight("app", "/simulate") = {} /\ handleRunTest([points |-> s])
    \/ ServeSimulate
    \/ ReceiveSimulate
    \/ Len(db) < MaxDocs /\ handleSaveTest
    \/ ServeSaveTest
    \/ ReceiveSaveTest
    \/ \E i \in 1..Len(app.testResults) : handleLoadTest(app.testResults[i])

AppSpec == Init /\ [][AppNext]_vars

\* The user runs the square once and saves it again and again, while
\* another client saves a test once.
HistoryNext ==
    \/ app.currentShape = Null /\ handleRunTest([points |-> Square])
    \/ ServeSimulate
    \/ ReceiveSimulate
    \/ Len(db) < MaxHistory /\ handleSaveTest
    \/ ServeSaveTest
    \/ ReceiveSaveTest
    \/ ServeTests
    \/ ReceiveTests
    \/ db = <<>> /\ SendSaveTest
    \/ Take
    \/ Tick

HistorySpec == Init /\ [][HistoryNext]_vars

\* The user clicks Run Test again before the answer has come: as many as
\* MaxRuns requests are on their way, and the answers come in any order.
MaxRuns == 2
RunShapes == {Square, Catalogue[6], Catalogue[7]}

RaceNext ==
    \/ \E c \in {u \in UiChanges : u[1] = "angle"} : handleChange(c[1], c[2])
    \/ \E s \in RunShapes :
           /\ Cardinality(InFlight("app", "/simulate")) < MaxRuns
           /\ Request("app", "express", "/simulate", "POST",
                      [shape |-> [points |-> s], parameters |-> app.params]) \notin net
           /\ handleRunTest([points |-> s])
    \/ ServeSimulate
    \/ ReceiveSimulate

RaceSpec == Init /\ [][RaceNext]_vars

\* The user runs one test at a time and saves it; a save may fail on the
\* server or on the way.
SaveNext ==
    \/ \E s \in UiShapes : InFlight("app", "/simulate") = {} /\ handleRunTest([points |-> s])
    \/ ServeSimulate
    \/ ReceiveSimulate
    \/ FailSimulate
    \/ Len(db) < MaxDocs /\ handleSaveTest
    \/ ServeSaveTest
    \/ ReceiveSaveTest
    \/ FailSaveTest
    \/ ClearSaveMessage
    \/ \E i \in 1..Len(app.testResults) : handleLoadTest(app.testResults[i])

SaveSpec == Init /\ [][SaveNext]_vars

\* ------------------------------------------------------------------------
\* The canvas
\* ------------------------------------------------------------------------
\* Where the user clicks while drawing, one point after the other, and as
\* many clicks as followed.
ClickPath == << <<Real(200), Real(200)>>, <<Real(400), Real(250)>>, <<Real(300), Real(300)>>,
               <<Real(250), Real(320)>> >>
MaxClicks == 3
NextClick == ClickPath[Len(canvas.drawPoints) + 1]

Shifted(pts, dx, dy) == [i \in 1..Len(pts) |-> <<pts[i][1] + dx, pts[i][2] + dy>>]

\* getVertices: the corners of the object on the canvas, the object not
\* rotated, scaled or flipped.
getVertices(obj) ==
    LET w == Field(obj, "width")
        h == Field(obj, "height")
    IN  IF obj.type = "triangle"
        THEN Shifted(<< <<0, -(h \div 2)>>, <<-(w \div 2), h \div 2>>, <<w \div 2, h \div 2>> >>,
                     obj.left, obj.top)
        ELSE IF obj.type = "polygon" THEN obj.points
        ELSE IF obj.type = "circle" THEN Shifted(CircleVertices(obj.radius), obj.left, obj.top)
        ELSE Shifted(<< <<-(w \div 2), -(h \div 2)>>, <<w \div 2, -(h \div 2)>>,
                        <<w \div 2, h \div 2>>, <<-(w \div 2), h \div 2>> >>,
                     obj.left, obj.top)

\* The steps of the canvas leave the page, the server and the engine alone.
CanvasOnly == EngineOnly /\ UNCHANGED <<app, db, net, now, served>>

\* fabricRef.current.clear() and what the drawing leaves behind.
Cleared(c, objects) == [c EXCEPT !.objects = objects]

\* addRect, addTriangle, addCircle: the toolbar shows them outside the
\* drawing mode.
addShape(obj) ==
    /\ ~canvas.isDrawing
    /\ canvas' = Cleared(canvas, <<obj>>)
    /\ canvas' # canvas
    /\ CanvasOnly

startDrawing ==
    /\ ~canvas.isDrawing
    /\ canvas' = [canvas EXCEPT !.objects = <<>>, !.isDrawing = TRUE, !.drawPoints = <<>>,
                                !.tempObjects = <<>>, !.isPaused = TRUE]
    /\ CanvasOnly

\* canvas.on('mouse:down'): the point, its marker and, from the second
\* point on, the line from the point before.
mouseDown(pointer) ==
    /\ canvas.isDrawing
    /\ Len(canvas.drawPoints) < MaxClicks
    /\ Len(canvas.drawPoints) < Len(ClickPath)
    /\ \E aids \in {<<Circle(pointer[1], pointer[2], Real(4))>>
                     \o (IF canvas.drawPoints # <<>>
                         THEN <<Line(canvas.drawPoints[Len(canvas.drawPoints)], pointer)>>
                         ELSE <<>>)} :
          canvas' = [canvas EXCEPT !.drawPoints = Append(@, pointer),
                                   !.objects = @ \o aids,
                                   !.tempObjects = @ \o aids]
    /\ CanvasOnly

\* The sequence without the first occurrence of the object.
RECURSIVE Without(_, _)
Without(objects, obj) ==
    IF objects = <<>> THEN <<>>
    ELSE IF Head(objects) = obj THEN Tail(objects)
    ELSE <<Head(objects)>> \o Without(Tail(objects), obj)

\* canvas.on('mouse:move'): the dashed line from the last point to the
\* pointer replaces the one before.
mouseMove(pointer) ==
    /\ canvas.isDrawing
    /\ canvas.drawPoints # <<>>
    /\ \E guide \in {Line(canvas.drawPoints[Len(canvas.drawPoints)], pointer)} :
          canvas' = [canvas EXCEPT !.objects = Append(Without(@, canvas.currentLine), guide),
                                   !.currentLine = guide]
    /\ canvas' # canvas
    /\ CanvasOnly

cancelDrawing ==
    /\ canvas.isDrawing
    /\ canvas' = [canvas EXCEPT !.isDrawing = FALSE, !.isPaused = FALSE,
                                !.objects = <<DefaultRect>>]
    /\ CanvasOnly

\* finishDrawing: with fewer than 3 points it is cancelDrawing; the points
\* are all sharp and the symmetry is off, so the curve is the points drawn.
finishDrawing ==
    /\ canvas.isDrawing
    /\ canvas' = IF Len(canvas.drawPoints) < 3
                 THEN [canvas EXCEPT !.isDrawing = FALSE, !.isPaused = FALSE,
                                     !.objects = <<DefaultRect>>]
                 ELSE [canvas EXCEPT !.isDrawing = FALSE, !.isPaused = FALSE,
                                     !.objects = <<Polygon(canvas.drawPoints)>>]
    /\ CanvasOnly

\* A click on an entry of the history: handleLoadTest and the effect of
\* loadedShape on the canvas.
loadShape(test) ==
    /\ app' = [app EXCEPT !.params = [windSpeed |-> test.parameters.windSpeed,
                                      angle |-> test.parameters.angle,
                                      airDensity |-> test.parameters.airDensity],
                          !.currentShape = test.shape,
                          !.currentResult = test.results,
                          !.saveMessage = Null]
    /\ canvas' = Cleared(canvas, IF Has(test.shape, "points") /\ Len(test.shape.points) > 0
                                 THEN <<Polygon(test.shape.points)>> ELSE <<>>)
    /\ <<app', canvas'>> # <<app, canvas>>
    /\ UNCHANGED <<db, net, now, served>>
    /\ EngineOnly

\* handleRun: the first object of the canvas goes to onRun, which is
\* handleRunTest.
handleRun ==
    /\ canvas.objects # <<>>
    /\ \E pts \in {getVertices(canvas.objects[1])} :
          /\ app' = [app EXCEPT !.currentShape = [points |-> pts], !.saveMessage = Null]
          /\ net' = net \cup {Request("app", "express", "/simulate", "POST",
                                      [shape |-> [points |-> pts], parameters |-> app.params])}
    /\ UNCHANGED <<db, now, served, canvas>>
    /\ EngineOnly

\* The user at the canvas, with a history that holds the test of another
\* client; one run at a time is followed, and not its answer.
CanvasNext ==
    \/ \E obj \in {DefaultRect, Triangle(Real(300), Real(250), Real(100), Real(100)),
                    Circle(Real(300), Real(250), Real(50))} : addShape(obj)
    \/ startDrawing
    \/ mouseDown(NextClick)
    \/ mouseMove(NextClick)
    \/ cancelDrawing
    \/ finishDrawing
    \/ InFlight("app", "/simulate") = {} /\ handleRun
    \/ FailSimulate
    \/ db = <<>> /\ SendSaveTest
    \/ ServeSaveTest
    \/ ServeTests
    \/ ReceiveTests
    \/ \E i \in 1..Len(app.testResults) : loadShape(app.testResults[i])

CanvasSpec == Init /\ [][CanvasNext]_vars

\* ------------------------------------------------------------------------
\* The particles
\* ------------------------------------------------------------------------
\* const maxTrail = 80
MaxTrail == 80

Resets == {resetParticle(y) : y \in StartHeights}

\* simSettings?.influenceRadius ?? 25
InfluenceRadius == 25

\* The quick bound check of the steering: the particle is within the
\* influence radius of the box of the object.  Further away the particle is
\* neither inside the object nor steered, and its step does not reach the
\* outline.
InBand(q, obj) ==
    /\ AbsI(q.x - obj.left) < obj.width \div 2 + Real(InfluenceRadius)
    /\ AbsI(q.y - obj.top) < obj.height \div 2 + Real(InfluenceRadius)

\* The frame of one particle within the band.  Where the particle is with
\* respect to the outline is not followed: it may be inside the object and
\* be reset, be away from the outline, be steered up or down as far as
\* maxVerticalVelocity allows, or slide along the surface with 95 % of its
\* speed.
NearObject(q) ==
    LET cooled == [q EXCEPT !.collisionCooldown = IF @ > 0 THEN @ - 1 ELSE @]
    IN  Resets
        \cup {cooled}
        \cup {[cooled EXCEPT !.vy = v] : v \in {Real(2), Real(-2)}}
        \cup (IF cooled.collisionCooldown = 0
              THEN {[cooled EXCEPT !.vx = MulF(q.vx, Milli(950)), !.vy = 0,
                                   !.collisionCooldown = 2]}
              ELSE {})

\* The body of particles.current.forEach in render: the outcomes of one
\* frame for the particle p.
RenderParticle(p, speedFactor, objects) ==
    LET trail == <<<<p.x, p.y>>>> \o p.trail
        moved == [p EXCEPT !.trail = IF Len(trail) > MaxTrail
                                     THEN SubSeq(trail, 1, Len(trail) - 1) ELSE trail,
                           !.x = p.x + MulF(p.vx, speedFactor),
                           !.y = p.y + MulF(p.vy, speedFactor),
                           !.vy = MulF(p.vy, Milli(200))]
        dx == moved.x - moved.lastX
        dy == moved.y - moved.lastY
        still == MulF(dx, dx) + MulF(dy, dy) < Milli(250)
        tracked == IF still THEN [moved EXCEPT !.stagnantFrames = @ + 1]
                   ELSE [moved EXCEPT !.stagnantFrames = 0, !.lastX = moved.x,
                                      !.lastY = moved.y]
        cooler == [tracked EXCEPT !.heat = IF @ > 0 THEN @ - Milli(150) ELSE @]
    IN  IF still /\ tracked.stagnantFrames > 30 THEN Resets
        ELSE IF \/ tracked.x > Overlay.width \/ tracked.x < Real(-20)
                \/ tracked.y < Real(-20) \/ tracked.y > Overlay.height + Real(20)
        THEN Resets
        ELSE IF tracked.heat > 0 /\ cooler.heat <= 0 THEN Resets
        ELSE IF objects # <<>> /\ InBand(cooler, objects[1]) THEN NearObject(cooler)
        ELSE {[cooler EXCEPT !.collisionCooldown = IF @ > 0 THEN @ - 1 ELSE @]}

\* A frame of all particles.
RenderFrames(particles, speedFactor, objects) ==
    {f \in [1..Len(particles) ->
               UNION {RenderParticle(particles[i], speedFactor, objects) :
                         i \in 1..Len(particles)}] :
        \A i \in 1..Len(particles) :
            f[i] \in RenderParticle(particles[i], speedFactor, objects)}

\* paramsRef.current.windSpeed / 20
SpeedFactor == XDiv(Field(app.params, "windSpeed"), Real(20))

renderWhilePaused ==
    /\ IF XGt(SpeedFactor, 0)
       THEN \E next \in RenderFrames(canvas.particles, SpeedFactor, canvas.objects) :
               canvas' = [canvas EXCEPT !.particles = next]
       ELSE canvas' = canvas
    /\ CanvasOnly

\* render: one frame of the animation.  The particles are updated unless
\* the animation is paused or the wind stands still; drawing them changes
\* nothing.
render ==
    /\ IF ~canvas.isPaused /\ XGt(SpeedFactor, 0)
       THEN \E next \in RenderFrames(canvas.particles, SpeedFactor, canvas.objects) :
               canvas' = [canvas EXCEPT !.particles = next]
       ELSE canvas' = canvas
    /\ CanvasOnly

\* The animation while the user sets the wind speed and draws.
ParticleNext ==
    \/ render
    \/ \E speed \in {0, Real(50)} : handleChange("windSpeed", speed)
    \/ startDrawing
    \/ mouseDown(NextClick)
    \/ cancelDrawing
    \/ finishDrawing

ParticleSpec == Init /\ [][ParticleNext]_vars

\* ------------------------------------------------------------------------
\* The 3D engine
\* ------------------------------------------------------------------------
DEFAULT_AIR_DENSITY == 12250

\* A mesh is its geometry and its rotation about the x axis, in degrees; the
\* other two rotations are 0.
Geometries3D ==
    { [type |-> "SphereGeometry", parameters |-> [radius |-> Real(1)]],
      [type |-> "BoxGeometry",
       parameters |-> [width |-> Real(2), height |-> Real(1), depth |-> Real(1)]],
      [type |-> "CylinderGeometry",
       parameters |-> [radiusTop |-> Milli(500), radiusBottom |-> Milli(500),
                       height |-> Real(2)]],
      [type |-> "ConeGeometry", parameters |-> [radius |-> Real(1), height |-> Real(2)]],
      [type |-> "TorusGeometry", parameters |-> [radius |-> Real(1), tube |-> Milli(400)],
       boundingSphere |-> [radius |-> Milli(1400)]] }
Pitches == {0, Real(30), Real(45), Real(-90)}
Meshes == [geometry : Geometries3D, pitch : Pitches]
Params3D == [windSpeed : {0, Real(1), Real(10), Real(50), Undefined},
             airDensity : {Milli(1225), Undefined}]

calculateReynolds3D(velocity, characteristicLength, density, viscosity) ==
    calculateReynolds(velocity, characteristicLength, density, viscosity)

\* The flow comes along x: a rotation about x leaves the two x faces of a
\* box across the flow and the other four along it.
calculateProjectedArea(mesh) ==
    LET geometry == mesh.geometry
        prm == geometry.parameters
    IN  CASE geometry.type = "SphereGeometry" ->
               LET radius == OrElse(Field(prm, "radius"), Real(1))
               IN  XMul(XMul(PI, radius), radius)
          [] geometry.type = "BoxGeometry" ->
               LET height == OrElse(Field(prm, "height"), Real(1))
                   depth == OrElse(Field(prm, "depth"), Real(1))
               IN  XAdd(XMul(height, depth), XMul(height, depth))
          [] geometry.type = "CylinderGeometry" ->
               LET radiusTop == OrElse(Field(prm, "radiusTop"), Milli(500))
                   radiusBottom == OrElse(Field(prm, "radiusBottom"), Milli(500))
                   height == OrElse(Field(prm, "height"), Real(2))
                   avgRadius == XDiv(XAdd(radiusTop, radiusBottom), Real(2))
                   sideArea == XMul(XMul(Real(2), avgRadius), height)
                   endArea == XMul(XMul(PI, avgRadius), avgRadius)
               IN  XMax(sideArea, endArea)
          [] geometry.type = "ConeGeometry" ->
               LET radius == OrElse(Field(prm, "radius"), Real(1))
                   height == OrElse(Field(prm, "height"), Real(2))
               IN  XMax(XMul(radius, height), XMul(XMul(PI, radius), radius))
          [] OTHER ->
               XMul(XMul(PI, geometry.boundingSphere.radius), geometry.boundingSphere.radius)

getDragCoefficient3D(geometryType, reynolds) ==
    CASE geometryType = "SphereGeometry" ->
           IF XLt(reynolds, Re(1)) THEN XMax(OverRe(24, reynolds), Real(2))
           ELSE IF XLt(reynolds, Re(200000)) THEN Milli(470)
           ELSE IF XLt(reynolds, Re(500000))
           THEN LET t == (reynolds - Re(200000)) \div (Re(300000) \div Scale)
                IN  MulF(Milli(470), Scale - t) + MulF(Milli(200), t)
           ELSE Milli(200)
      [] geometryType = "BoxGeometry" -> Milli(1050)
      [] geometryType = "CylinderGeometry" -> Milli(820)
      [] geometryType = "ConeGeometry" -> Milli(500)
      [] geometryType = "TorusGeometry" -> Milli(1200)
      [] OTHER -> Real(1)

getLiftCoefficient3D(geometryType, angleOfAttack, reynolds) ==
    LET alpha == ToRadians(angleOfAttack)
    IN  CASE geometryType = "SphereGeometry" ->
               XMul(Milli(100), MathSin(XMul(Real(2), alpha)))
          [] geometryType \in {"BoxGeometry", "CylinderGeometry"} ->
               XMul(Milli(500), MathSin(XMul(Real(2), alpha)))
          [] geometryType = "ConeGeometry" ->
               XMul(Milli(300), MathSin(XMul(Real(2), alpha)))
          [] OTHER -> 0

getCharacteristicLength(geometry) ==
    LET prm == geometry.parameters
    IN  CASE geometry.type = "SphereGeometry" ->
               XMul(Real(2), OrElse(Field(prm, "radius"), Real(1)))
          [] geometry.type = "BoxGeometry" ->
               XMax(XMax(OrElse(Field(prm, "width"), Real(1)),
                         OrElse(Field(prm, "height"), Real(1))),
                    OrElse(Field(prm, "depth"), Real(1)))
          [] geometry.type \in {"CylinderGeometry", "ConeGeometry"} ->
               XMul(Real(2), OrElse(OrElse(Field(prm, "radius"), Field(prm, "radiusTop")),
                                    Milli(500)))
          [] OTHER -> XMul(Real(2), geometry.boundingSphere.radius)

\* The locals of calculate3DAerodynamics, and the record it returns.
Locals3D(mesh, params3) ==
    LET velocityMs == XDiv(OrElse(Field(params3, "windSpeed"), Real(50)), Milli(3600))
        rho == OrElse(Field(params3, "airDensity"), DEFAULT_AIR_DENSITY)
        charLength == getCharacteristicLength(mesh.geometry)
        reynolds == calculateReynolds3D(velocityMs, charLength, rho, AIR_DYNAMIC_VISCOSITY)
    IN  [velocityMs |-> velocityMs,
         projectedArea |-> calculateProjectedArea(mesh),
         charLength |-> charLength,
         reynolds |-> reynolds,
         cd |-> getDragCoefficient3D(mesh.geometry.type, reynolds),
         cl |-> getLiftCoefficient3D(mesh.geometry.type, mesh.pitch, reynolds),
         dynamicPressure |-> XMul(XMul(XMul(Milli(500), rho), velocityMs), velocityMs)]

calculate3DAerodynamics(mesh, params3) ==
    CHOOSE r \in
      { [cd |-> Round(f.cd, 10),
         cl |-> Round(f.cl, 10),
         cm |-> 0,
         dragForce |-> Round(XMul(XMul(f.dynamicPressure, f.projectedArea), f.cd), 100),
         liftForce |-> Round(XMul(XMul(f.dynamicPressure, f.projectedArea), f.cl), 100),
         sideForce |-> 0,
         reynolds |-> Round(f.reynolds, ReScale),
         dynamicPressure |-> Round(f.dynamicPressure, 100),
         projectedArea |-> Round(f.projectedArea, 1),
         debug |-> [geometryType |-> mesh.geometry.type,
                    velocityMs |-> Round(f.velocityMs, 100),
                    charLength |-> Round(f.charLength, 10),
                    angleOfAttack |-> Round(mesh.pitch, 1000)]]
        : f \in {Locals3D(mesh, params3)} } : TRUE

ProbeAerodynamics3D(mesh, params3) ==
    /\ ProbeIdle
    /\ probe' = [fn |-> "calculate3DAerodynamics", mesh |-> mesh, params |-> params3,
                 out |-> calculate3DAerodynamics(mesh, params3)]
    /\ UNCHANGED <<pc, points, params, entry, angleDegrees, loopIterations, result, remembered>>
    /\ UNCHANGED appVars

Aero3DNext ==
    \/ ProbeIdle /\ \E mesh \in Meshes, params3 \in Params3D : ProbeAerodynamics3D(mesh, params3)
    \/ ProbeDone

Aero3DSpec == Init /\ [][Aero3DNext]_vars

\* ------------------------------------------------------------------------
\* Properties
\* ------------------------------------------------------------------------
Exited == pc \in {"returned", "threw"}

\* The angle the caller asked for, as line 558 reads it.
AngleGiven == OrElse(Field(entry.params, "angle"), 0)

\* C1: for every shapeType, finite Reynolds number >= 0, aspect ratio > 0,
\* solidity in [0, 1] and angle, calculateDragCoefficient returns a value
\* between 0.01 and 2.5, both included.
C1_DragCoefficientClamped ==
    (/\ probe.fn = "calculateDragCoefficient"
     /\ IsFinite(probe.reynolds) /\ probe.reynolds >= 0
     /\ IsFinite(probe.aspectRatio) /\ probe.aspectRatio > 0
     /\ probe.solidity >= 0 /\ probe.solidity <= Real(1))
    => (probe.out >= Milli(10) /\ probe.out <= Milli(2500))

\* C1, the case: a circular body in still air, where the model's value is
\* above the upper limit and the clamp gives 2.5.
C1_ClampedAtUpperLimit ==
    /\ probe.fn = "calculateDragCoefficient"
    /\ probe.shapeType = "circular"
    /\ probe.reynolds = 0
    /\ XGt(DragModel("circular", 0, probe.aspectRatio, probe.solidity,
                     probe.angleDegrees, probe.geometry), Milli(2500))
    /\ probe.out = Milli(2500)

\* C2: a call with a polygon of fewer than 3 points, or with a missing
\* windSpeed, angle or airDensity, ends in an error and never in a record,
\* and no record returned holds NaN.
InvalidInput(e) ==
    \/ Len(e.points) < 3
    \/ \E name \in {"windSpeed", "angle", "airDensity"} : ~IsFinite(Field(e.params, name))

HoldsNaN(value) ==
    \E name \in {"cd", "cl", "dragForce", "liftForce", "area", "referenceArea", "reynolds",
                 "vortexFrequency", "strouhal", "pressureDrag", "frictionDrag"} :
        IsNaN(value[name])

C2_InvalidInputRejected ==
    /\ (Exited /\ InvalidInput(entry)) => pc = "threw"
    /\ pc = "returned" => ~HoldsNaN(result.value)

\* C3: a polygon of at least 3 points with a zero-length chord, a zero
\* bounding-box width or height or a zero characteristic length gets a
\* complete record; the call does not throw.
Degenerate(pts) ==
    LET b == getBoundingBox(pts)
    IN  Len(pts) >= 3 /\ (b.width = 0 \/ b.height = 0 \/ calculatePolygonArea(pts) = 0)

C3_DegenerateGeometryReturns ==
    (Exited /\ Degenerate(entry.points) /\ ~InvalidInput(entry)) => pc = "returned"

\* C4: classifyShape is total and the first match wins: circular if
\* 0.70 < solidity < 0.82 and 0.8 < width/height < 1.25; else rectangular if
\* solidity > 0.85 and there are exactly 4 points; else streamlined if
\* width/height > 3.0 or 0 < width/height < 0.33; else bluff.  The ratios
\* are compared by cross-multiplication; over a zero height a positive width
\* gives an infinite ratio and a zero width none.
C4_ClassifyShapeOrder ==
    probe.fn = "classifyShape" =>
        LET w == probe.width
            h == probe.height
            s == probe.solidity
            circular == /\ s > Milli(700) /\ s < Milli(820)
                        /\ h > 0 /\ 10 * w > 8 * h /\ 100 * w < 125 * h
            rectangular == s > Milli(850) /\ probe.count = 4
            streamlined == IF h > 0 THEN w > 3 * h \/ (100 * w < 33 * h /\ w > 0)
                           ELSE w > 0
        IN  probe.out = IF circular THEN "circular"
                        ELSE IF rectangular THEN "rectangular"
                        ELSE IF streamlined THEN "streamlined"
                        ELSE "bluff"

\* C4, the case: four points of solidity 1 in a box more than 3 times as
\* wide as high are rectangular, not streamlined.
C4_RectangularBeforeStreamlined ==
    /\ probe.fn = "classifyShape"
    /\ probe.count = 4
    /\ probe.solidity = Real(1)
    /\ probe.width = Real(301) /\ probe.height = Real(80)
    /\ probe.out = "rectangular"

\* C5: solidity, aspectRatio and the class are those of the bounding box of
\* the polygon as given, whatever the angle of attack.
C5_ClassifiedUnrotated ==
    (pc = "returned" /\ ~InvalidInput(entry)) =>
        LET b == getBoundingBox(entry.points)
            boxArea == XMul(b.width, b.height)
            solidity == IF XGt(boxArea, 0)
                        THEN XDiv(calculatePolygonArea(entry.points), boxArea) ELSE Real(1)
            aspectRatio == IF XGt(b.height, 0) THEN XDiv(b.width, b.height) ELSE Real(1)
        IN  /\ result.value.shapeType = classifyShape(entry.points, b, solidity)
            /\ result.value.debug.solidity = Round(solidity, 10)
            /\ result.value.debug.aspectRatio = Round(aspectRatio, 10)

\* C6: scenario A: the square of side 100 at 50 km/h, angle 0, density 1.225
\* is rectangular with cd = 2.0, a positive drag force, cl = 0, no lift force
\* and a camber of about 0.
ScenarioA ==
    /\ entry.set
    /\ entry.points = Square
    /\ entry.params = [windSpeed |-> Real(50), angle |-> 0, airDensity |-> Milli(1225)]

C6_ScenarioA ==
    (pc = "returned" /\ ScenarioA) =>
        /\ result.value.shapeType = "rectangular"
        /\ result.value.cd = Real(2)
        /\ result.value.dragForce > 0
        /\ result.value.cl = 0
        /\ result.value.liftForce = 0
        /\ AbsI(result.value.debug.camber) <= Milli(10)

\* C7: calculateLiftCoefficient returns exactly 0 whenever the geometry says
\* isSymmetric and |angle| < 0.5 degrees, whatever the other arguments.
C7_SymmetricAtZeroNoLift ==
    (/\ probe.fn = "calculateLiftCoefficient"
     /\ HasGeometry(probe.geometry)
     /\ Truthy(probe.geometry, "isSymmetric")
     /\ AbsI(probe.angleDegrees) < Milli(500))
    => probe.out = 0

\* C7, the case: a streamlined body with camber, symmetric by its flag, at
\* 0.3 degrees, which the lift model alone would give a lift.
C7_SymmetricCamberedAtSmallAngle ==
    /\ probe.fn = "calculateLiftCoefficient"
    /\ probe.shapeType = "streamlined"
    /\ probe.reynolds = Re(200000)
    /\ HasGeometry(probe.geometry)
    /\ Truthy(probe.geometry, "isSymmetric")
    /\ Field(probe.geometry, "camber") = Milli(15)
    /\ probe.angleDegrees = Milli(300)
    /\ probe.out = 0

C9_OnlyLinearScans ==
    pc = "returned" => loopIterations <= ScanIterations(entry.points)

C16_CircularMidCrisis ==
    (/\ probe.fn = "calculateDragCoefficient"
     /\ probe.shapeType = "circular"
     /\ probe.reynolds = Re(350000)
     /\ probe.angleDegrees = 0)
    => probe.out = Milli(750)

\* C16, the case: the middle of the drag crisis, where the exponent is 0 and
\* the sigmoid is one half.
C16_SigmoidAtOneHalf ==
    /\ probe.fn = "calculateDragCoefficient"
    /\ probe.shapeType = "circular"
    /\ probe.reynolds = Re(350000)
    /\ probe.angleDegrees = 0
    /\ TransitionRel(probe.reynolds) = 0
    /\ XDiv(Scale, Scale + MathExp(TransitionRel(probe.reynolds))) = Milli(500)
    /\ probe.out = Milli(750)

\* C14: scenario B, the square at windSpeed 50, airDensity 1.225 and angle 45,
\* returns a cl of about 0 (within 0.05).
ScenarioB ==
    /\ entry.set
    /\ entry.points = Square
    /\ entry.params = [windSpeed |-> Real(50), angle |-> Real(45), airDensity |-> Milli(1225)]

C14_ScenarioB ==
    (pc = "returned" /\ ScenarioB) => AbsI(result.value.cl) <= Milli(50)

\* C15: scenario C, the 64-gon of radius 50 px at windSpeed 100, angle 0 and
\* airDensity 1.225, is classified circular, its Reynolds number is that of
\* a length of 1 m (the width of its bounding box), its cd lies in
\* [0.2, 1.2] and its vortexFrequency is positive.
ScenarioC ==
    /\ entry.set
    /\ entry.points = Circle64
    /\ entry.params = [windSpeed |-> Real(100), angle |-> 0, airDensity |-> Milli(1225)]

C15_ScenarioC ==
    (Exited /\ ScenarioC) =>
        /\ pc = "returned"
        /\ result.value.shapeType = "circular"
        /\ getBoundingBox(entry.points).width = Real(100)
        /\ result.value.debug.characteristicLength = Real(1)
        /\ result.value.reynolds =
               Round(calculateReynolds(XDiv(Real(100), Milli(3600)), Real(1), Milli(1225),
                                       AIR_DYNAMIC_VISCOSITY), ReScale)
        /\ result.value.cd >= Milli(200) /\ result.value.cd <= Milli(1200)
        /\ result.value.vortexFrequency > 0

\* C15, the case: the call on the 64-gon has returned, above the drag crisis.
C15_CircleSolved ==
    /\ pc = "returned"
    /\ ScenarioC
    /\ Len(entry.points) = 64
    /\ result.value.shapeType = "circular"
    /\ result.value.reynolds > Re(500000)

\* C19: a polygon that is the mirror image of itself in the chord from
\* its leading edge to its trailing edge is reported symmetric by
\* analyzeGeometry.
MirrorSymmetric(pts) ==
    /\ Len(pts) > 0
    /\ getBoundingBox(pts).width > 0
    /\ LET b == getBoundingBox(pts)
           pLE == pts[NearestX(pts, b.minX)]
           pTE == pts[NearestX(pts, b.maxX)]
       IN  /\ pLE[2] = pTE[2]
           /\ \A i \in 1..Len(pts) : \E j \in 1..Len(pts) :
                  pts[j] = <<pts[i][1], 2 * pLE[2] - pts[i][2]>>
           /\ \E i \in 1..Len(pts) : pts[i][2] # pLE[2]

C19_MirrorSymmetricReported ==
    (probe.fn = "analyzeGeometry" /\ MirrorSymmetric(probe.points))
        => probe.out.isSymmetric

\* C20: when the chord length is 0, analyzeGeometry returns a record of the
\* five fields camber, thickness, isSymmetric, teAngle and leRadius, with
\* camber = 0, thickness = 0, isSymmetric = true, teAngle = 180, leRadius = 0.
C20_DefaultRecordFields ==
    (probe.fn = "analyzeGeometry" /\ XSub(probe.bounds.maxX, probe.bounds.minX) = 0)
        => probe.out = [camber |-> 0, thickness |-> 0, isSymmetric |-> TRUE,
                        teAngle |-> Real(180), leRadius |-> 0]

\* The largest coordinate magnitude of a polygon, and what rounding may
\* change: a coordinate by two units of its last place, an area or an
\* extent by the sum of such changes over the vertices.
Largest(pts) ==
    LET S == {AbsI(pts[i][c]) : i \in 1..Len(pts), c \in 1..2}
    IN  CHOOSE m \in S : \A x \in S : x <= m

CoordinateTolerance(pts) == 2 * Ulp(Largest(pts))
ExtentTolerance(pts) == 2 * CoordinateTolerance(pts)
AreaTolerance(pts) == Len(pts) * FMul(2 * Largest(pts), CoordinateTolerance(pts))

Near(a, b, tolerance) == AbsI(a - b) <= tolerance

Whole(pts) == \A i \in 1..Len(pts), c \in 1..2 : pts[i][c] % FloatOne = 0

C18_RotationByZeroIdentity ==
    (probe.fn = "rotatePoints" /\ probe.angleDegrees = 0) =>
        /\ probe.out = probe.points
        /\ getBoundingBoxFloat(probe.out) = getBoundingBoxFloat(probe.points)
        /\ calculatePolygonAreaFloat(probe.out) = calculatePolygonAreaFloat(probe.points)

\* C18: rotatePoints(points, 0) returns the coordinates of its input up to
\* rounding, and getBoundingBox and calculatePolygonArea give the same
\* values up to rounding before and after.
C18_RotationByZeroUpToRounding ==
    (probe.fn = "rotatePoints" /\ probe.angleDegrees = 0) =>
        /\ Len(probe.out) = Len(probe.points)
        /\ \A i \in 1..Len(probe.points), c \in 1..2 :
               Near(probe.out[i][c], probe.points[i][c], CoordinateTolerance(probe.points))
        /\ \A k \in {"minX", "maxX", "minY", "maxY", "width", "height"} :
               Near(getBoundingBoxFloat(probe.out)[k], getBoundingBoxFloat(probe.points)[k],
                    ExtentTolerance(probe.points))
        /\ Near(calculatePolygonAreaFloat(probe.out), calculatePolygonAreaFloat(probe.points),
                AreaTolerance(probe.points))

\* C18, the case: the quadrilateral turned by 0 degrees has a coordinate
\* that is not the one given.
C18_RotationByZeroRounds ==
    /\ probe.fn = "rotatePoints"
    /\ probe.angleDegrees = 0
    /\ probe.points = Quadrilateral
    /\ probe.out # probe.points
    /\ \A i \in 1..Len(probe.points), c \in 1..2 :
           Near(probe.out[i][c], probe.points[i][c], CoordinateTolerance(probe.points))

\* C12: POST /simulate sends exactly one response for a request: status 400
\* and an object with an error field when shape, shape.points or parameters
\* is missing from the body, status 500 and an object with an error field
\* when the engine throws, and the result of the engine otherwise; the
\* serverless handler answers OPTIONS with 200 and any other method that is
\* not POST with 405 and an error object.  A request without a body is
\* answered once, with an error object.
C12_OneResponse ==
    served.set =>
        /\ Len(served.sent) = 1
        /\ \A req \in {served.request}, res \in {served.sent[1]} :
              IF req.variant = "serverless" /\ req.method = "OPTIONS"
              THEN res.status = 200
              ELSE IF req.variant = "serverless" /\ req.method # "POST"
              THEN res.status = 405 /\ Has(res.body, "error")
              ELSE IF req.body = NoBody
              THEN res.status \in {400, 500} /\ Has(res.body, "error")
              ELSE IF \/ ~Has(req.body, "shape")
                      \/ ~Has(req.body.shape, "points")
                      \/ ~Has(req.body, "parameters")
              THEN res.status = 400 /\ Has(res.body, "error")
              ELSE \A r \in {calculateDrag(req.body.shape.points, req.body.parameters)} :
                      IF r.threw
                      THEN res.status = 500 /\ Has(res.body, "error")
                      ELSE res.status = 200 /\ res.body = r.value

\* A complete body on which the engine threw has been answered with 500.
C12_EngineThrowAnswered ==
    /\ served.set
    /\ served.request.method = "POST"
    /\ ~InvalidBody(served.request.body)
    /\ calculateDrag(served.request.body.shape.points, served.request.body.parameters).threw
    /\ Len(served.sent) = 1
    /\ served.sent[1].status = 500

\* C11: for every test persisted through the page, running the engine on
\* the stored shape.points and the stored parameters gives the stored cd,
\* cl, dragForce, liftForce and area.
C11_StoredRunReproduced ==
    \A i \in 1..Len(db) :
        \A r \in {calculateDrag(db[i].shape.points, db[i].parameters)} :
            /\ ~r.threw
            /\ \A k \in {"cd", "cl", "dragForce", "liftForce", "area"} :
                  Field(r.value, k) = db[i].results[k]

MostRecentFirst(tests) ==
    \A i \in 1..(Len(tests) - 1) : tests[i].createdAt >= tests[i + 1].createdAt

\* C13: every answer of GET /tests lists at most 10 tests, most recent
\* first, and the history of the page is most recent first at all times.
C13_MostRecentFirst ==
    /\ \A m \in net :
          (m.kind = "response" /\ m.path = "/tests") =>
              MostRecentFirst(m.body) /\ Len(m.body) <= HistoryLimit
    /\ MostRecentFirst(app.testResults)

\* The locals of calculateDrag before its return statement, for a call
\* whose angle is normalized.
SolvedLocals(points0, prm, angle) ==
    Then(Then(Then(Then(Then(Then(Then(
        Rotated(points0, prm, angle),
        Bounded), Measured), Classified), Sized), Analyzed), Rated), Loaded)

\* C21: for a polygon classified streamlined, the cd that calculateDrag
\* returns is the one the drag model gives with the analysed geometry: with
\* the factor 0.8 when the analysis says isSymmetric and |angle| < 5, and
\* with the term 0.1 * (teAngle - 20) / 70 when the analysed teAngle
\* exceeds 20.
C21_StreamlinedCdReflectsGeometry ==
    (pc = "returned" /\ result.value.shapeType = "streamlined") =>
        \A f \in {SolvedLocals(entry.points, entry.params, angleDegrees)} :
            result.value.cd =
                Round(calculateDragCoefficient(f.shapeType, f.reynolds, f.aspectRatio,
                                               f.solidity, f.angleDegrees, f.geometry), 10)

\* What the switch of calculateLiftCoefficient and the Reynolds correction
\* give for the arguments of a direct call.
ProbedLiftModel ==
    ReynoldsCorrection(
        LiftModel(probe.shapeType, probe.aspectRatio, probe.angleDegrees, probe.solidity,
                  IF HasGeometry(probe.geometry) THEN Field(probe.geometry, "camber") ELSE 0,
                  IF HasGeometry(probe.geometry) THEN Field(probe.geometry, "thickness")
                  ELSE Milli(120),
                  IF HasGeometry(probe.geometry) THEN Truthy(probe.geometry, "isSymmetric")
                  ELSE FALSE,
                  IF HasGeometry(probe.geometry) THEN Field(probe.geometry, "teAngle")
                  ELSE Real(30)),
        probe.reynolds)

\* The camber a direct call works with: 0 without a geometry.
ProbedCamber == IF HasGeometry(probe.geometry) THEN Field(probe.geometry, "camber") ELSE 0

\* C22: calculateLiftCoefficient returns 0 whenever the shape is not
\* streamlined, 0.5 <= aspectRatio <= 2, |camber| <= 0.001 and |angle| < 10;
\* when one of the four fails and the symmetric early return does not apply,
\* it returns what the model of the shape gives.  The camber is a number.
C22_EarlyReturnZero ==
    (probe.fn = "calculateLiftCoefficient" /\ ProbedCamber # Undefined) =>
        IF /\ probe.shapeType # "streamlined"
           /\ probe.aspectRatio >= Milli(500) /\ probe.aspectRatio <= Real(2)
           /\ AbsI(ProbedCamber) <= Milli(1)
           /\ AbsI(probe.angleDegrees) < Real(10)
        THEN probe.out = 0
        ELSE \/ /\ Truthy(probe.geometry, "isSymmetric")
                /\ AbsI(probe.angleDegrees) < Milli(500)
             \/ probe.out = ProbedLiftModel

\* C22, the case: a bluff body at the limits, aspect ratio 2 and camber
\* -0.001, at 3 degrees: 0 is returned where the model of the shape gives a
\* lift.
C22_NoLiftAtTheLimits ==
    /\ probe.fn = "calculateLiftCoefficient"
    /\ probe.shapeType = "bluff"
    /\ probe.aspectRatio = Real(2)
    /\ ProbedCamber = Milli(-1)
    /\ probe.angleDegrees = Real(3)
    /\ probe.reynolds = Re(200000)
    /\ ProbedLiftModel # 0
    /\ probe.out = 0

\* The Strouhal number of the claim's table.
StrouhalTable(shapeType, reynolds) ==
    IF shapeType = "circular" THEN (IF reynolds < Re(100) THEN Milli(100) ELSE Milli(200))
    ELSE IF shapeType = "rectangular" THEN Milli(150)
    ELSE IF shapeType = "streamlined" THEN Milli(100)
    ELSE Milli(180)

\* C23: for finite inputs the record returned holds the Strouhal number 0.2
\* for a circular shape (0.1 below Reynolds 100), 0.15 for a rectangular
\* one, 0.10 for a streamlined one and 0.18 for the others, and its
\* vortexFrequency is strouhal * velocity / characteristicLength, or 0 when
\* the characteristic length is 0: never NaN, never infinite.
C23_StrouhalAndFrequency ==
    (pc = "returned" /\ ~InvalidInput(entry)) =>
        \A f \in {SolvedLocals(entry.points, entry.params, angleDegrees)} :
            /\ result.value.strouhal = StrouhalTable(result.value.shapeType, f.reynolds)
            /\ IsFinite(result.value.vortexFrequency)
            /\ result.value.vortexFrequency =
                 IF f.characteristicLength = 0 THEN 0
                 ELSE Round(XDiv(XMul(result.value.strouhal, f.velocityMs),
                                 f.characteristicLength), 100)

\* C23, the case: a polygon without area in moving air, characteristic
\* length 0: the record is returned with the frequency 0.
C23_ZeroLengthNoFrequency ==
    /\ pc = "returned" /\ ~InvalidInput(entry)
    /\ entry.params.windSpeed > 0
    /\ \A f \in {SolvedLocals(entry.points, entry.params, angleDegrees)} :
           f.characteristicLength = 0 /\ f.velocityMs > 0
    /\ result.value.strouhal > 0
    /\ result.value.vortexFrequency = 0

\* The numeric fields of the record returned.
NumericFields ==
    {"cd", "cl", "dragForce", "liftForce", "area", "referenceArea", "reynolds",
     "vortexFrequency", "strouhal", "pressureDrag", "frictionDrag"}

\* A call in still air: at least 3 points, a chord that is not 0 (the
\* analysis has a camber), windSpeed 0 and a positive airDensity.
StillAir(e) ==
    /\ Len(e.points) >= 3
    /\ "camber" \in DOMAIN analyzeGeometry(e.points, getBoundingBox(e.points))
    /\ Field(e.params, "windSpeed") = 0
    /\ IsFinite(Field(e.params, "airDensity")) /\ Field(e.params, "airDensity") > 0

\* C28: calculateDrag in still air returns a record whose reynolds,
\* dragForce, liftForce, pressureDrag, frictionDrag and vortexFrequency are
\* 0 and whose numeric fields are all finite.
C28_StillAirNoLoads ==
    (Exited /\ StillAir(entry)) =>
        /\ pc = "returned"
        /\ \A name \in {"reynolds", "dragForce", "liftForce", "pressureDrag", "frictionDrag",
                        "vortexFrequency"} : result.value[name] = 0
        /\ \A name \in NumericFields : IsFinite(result.value[name])

\* C28, the case: the 64-gon in still air, Reynolds number 0: the Stokes
\* term 24 / 0 is infinite and the drag coefficient returned is the upper
\* limit 2.5.
C28_StokesTermClamped ==
    /\ pc = "returned" /\ StillAir(entry)
    /\ result.value.shapeType = "circular"
    /\ result.value.reynolds = 0
    /\ result.value.cd = Milli(2500)
    /\ result.value.dragForce = 0

\* The parameters the user can have set.
UiParams == [windSpeed : {Real(50), Real(100)}, angle : {0, Real(45)},
             airDensity : {Milli(1225)}]

\* C25: once every request to /simulate has been answered and the answers
\* taken, currentResult is the answer to the request sent last: what the
\* server sends for the shape held in currentShape, under parameters the user
\* can have set.
C25_LastRequestWins ==
    (InFlight("app", "/simulate") = {} /\ app.currentShape # Null /\ app.currentResult # Null) =>
        \E prm \in UiParams :
            \E sent \in {SimulateTry([shape |-> app.currentShape, parameters |-> prm])} :
                app.currentResult = sent[1].body

\* An answer of the server that reports an error.
IsErrorObject(x) == "error" \in DOMAIN x

\* C26: a request to /simulate that fails never changes currentResult:
\* currentResult is null or a record of results, never an error object, and
\* no request to /save-test carries an error object as its results.
C26_NoErrorObjectAsResult ==
    /\ ~IsErrorObject(app.currentResult)
    /\ \A m \in InFlight("app", "/save-test") :
          m.kind = "request" => ~IsErrorObject(m.body.results)

\* The request of handleSaveTest or its answer, on the way.
SaveInFlight == InFlight("app", "/save-test")

\* A step of the page with respect to saving: nothing is sent without a
\* result and a shape; the history changes only by the record of an answer
\* that is OK, put in front; a save that ends otherwise leaves the history
\* as it is, sets an error message and resets isSaving.
SaveStep ==
    /\ (app.currentResult = Null \/ app.currentShape = Null) =>
          /\ SaveInFlight' = SaveInFlight
          /\ app'.isSaving = app.isSaving
          /\ app'.testResults = app.testResults
    /\ app'.testResults # app.testResults =>
          \E m \in SaveInFlight :
              /\ m.kind = "response" /\ Ok(m.status)
              /\ SaveInFlight' = SaveInFlight \ {m}
              /\ app'.testResults = <<m.body>> \o app.testResults
    /\ \A m \in SaveInFlight :
          (SaveInFlight' = SaveInFlight \ {m} /\ ~(m.kind = "response" /\ Ok(m.status))) =>
              /\ app'.testResults = app.testResults
              /\ app'.saveMessage # Null
              /\ app'.saveMessage.type = "error"
              /\ ~app'.isSaving

C29_StillAir3D ==
    (probe.fn = "calculate3DAerodynamics" /\ probe.params.windSpeed = 0) =>
        /\ probe.out.debug.velocityMs = 0
        /\ probe.out.dragForce = 0
        /\ probe.out.liftForce = 0
        /\ probe.out.dynamicPressure = 0
        /\ probe.out.reynolds = 0

\* A drawing aid: a vertex marker or a line placed while the drawing mode is
\* active.
IsDrawingAid(obj) ==
    /\ canvas.isDrawing
    /\ \/ \E i \in 1..Len(canvas.tempObjects) : canvas.tempObjects[i] = obj
       \/ canvas.currentLine = obj

\* The requests to /simulate the page sends in the step.
RunsSent == {m \in net' \ net : m.kind = "request" /\ m.path = "/simulate" /\ m.from = "app"}

\* C24: whatever was done at the canvas before, the polygon Run Test hands
\* to onRun has at least 3 points and is the test shape on the canvas, never
\* a marker or a line of the drawing mode; and a drawing ended with fewer
\* than 3 points leaves the default rectangle on the canvas.
C24_RunSubmitsTestShape ==
    [][ /\ \A m \in RunsSent :
              /\ Len(m.body.shape.points) >= 3
              /\ canvas.objects # <<>>
              /\ m.body.shape.points = getVertices(canvas.objects[1])
              /\ ~IsDrawingAid(canvas.objects[1])
        /\ (canvas.isDrawing /\ ~canvas'.isDrawing /\ Len(canvas.drawPoints) < 3) =>
              canvas'.objects = <<DefaultRect>>
      ]_vars

\* C30: a frame rendered while the drawing mode has paused the animation, or
\* while windSpeed is 0, leaves the position, velocity, trail, heat,
\* collisionCooldown and stagnantFrames of every particle as they are; and
\* the animation is paused exactly from startDrawing to finishDrawing or
\* cancelDrawing.
C30_FrozenFrames ==
    /\ [](canvas.isPaused <=> canvas.isDrawing)
    /\ [][(canvas.isPaused \/ ~XGt(SpeedFactor, 0)) =>
              canvas'.particles = canvas.particles]_vars

\* C30, the case: the animation paused by the drawing mode in a wind of 50
\* km/h, with a particle on its way that an earlier frame has steered.
C30_PausedInFlight ==
    /\ canvas.isPaused /\ canvas.isDrawing
    /\ app.params.windSpeed = Real(50)
    /\ \E i \in 1..Len(canvas.particles) :
          /\ Len(canvas.particles[i].trail) >= 2
          /\ canvas.particles[i].vy # 0

=============================================================================
